---- MODULE Spec2Model ----
(***************************************************************************)
(* A model of marquez-python's two catalog clients:                        *)
(*   MarquezClient   (client.py)    - the query-capable client, which      *)
(*                                    sends every request with `requests`  *)
(*   MarquezClientWO (client_wo.py) - the write-only client, which only    *)
(*                                    records every request with log.info  *)
(* and of the HttpBackend transport (http_backend.py).                     *)
(*                                                                         *)
(* Python values are tagged records (None, Str, List, Dict, Enum).  A      *)
(* str is a sequence of atoms: every character that comes from a caller    *)
(* is an atom of its own; the literal words of the route templates         *)
(* ("namespaces", "api", ...) are one atom each and hold no "/".           *)
(***************************************************************************)
EXTENDS Naturals, Sequences, FiniteSets, TLC

VARIABLES client, sent, sink, last, ncalls, inflight

vars == <<client, sent, sink, last, ncalls, inflight>>

----------------------------------------------------------------------------
(* Bounds of the model.                                                    *)

\* how many arguments of a call differ from a valid baseline call
MaxDeviations == 1
\* how many characters the arguments of one _url call hold together
MaxUrlChars == 2
\* how many calls one behaviour of SpecSeq makes
MaxCalls == 3
\* how many callers share one client in SpecConc
NumCallers == 2
\* how many times SpecDag repeats the sequence of the DAG test
MaxReps == 2

----------------------------------------------------------------------------
(* Python values.                                                          *)

None == [py |-> "None"]
Str(chars) == [py |-> "str", chars |-> chars]
List(items) == [py |-> "list", items |-> items]
Dict(map) == [py |-> "dict", map |-> map]
EmptyMap == [k \in {} |-> None]
Bool(b) == [py |-> "bool", b |-> b]
Int(n) == [py |-> "int", n |-> n]

\* Python's truth test, as used by `if x:` / `not x` / `x or y`
Truthy(v) ==
    CASE v.py = "None" -> FALSE
      [] v.py = "str"  -> v.chars # <<>>
      [] v.py = "list" -> v.items # <<>>
      [] v.py = "dict" -> DOMAIN v.map # {}
      [] v.py = "bool" -> v.b
      [] v.py = "int"  -> v.n # 0
      [] OTHER         -> TRUE

PyOr(a, b) == IF Truthy(a) THEN a ELSE b

Rep(c, n) == [i \in 1..n |-> c]

RECURSIVE Flatten(_)
Flatten(ss) ==
    IF Len(ss) = 0 THEN <<>>
    ELSE IF Len(ss) = 1 THEN ss[1]
    ELSE LET h == Len(ss) \div 2
         IN  Flatten(SubSeq(ss, 1, h)) \o Flatten(SubSeq(ss, h + 1, Len(ss)))

Count(s, a) == Cardinality({i \in 1..Len(s) : s[i] = a})

----------------------------------------------------------------------------
(* Characters, UTF-8 and urllib.parse.quote.                               *)

Lower == <<"a","b","c","d","e","f","g","h","i","j","k","l","m",
           "n","o","p","q","r","s","t","u","v","w","x","y","z">>
Upper == <<"A","B","C","D","E","F","G","H","I","J","K","L","M",
           "N","O","P","Q","R","S","T","U","V","W","X","Y","Z">>
Digit == <<"0","1","2","3","4","5","6","7","8","9">>
\* "U+00E9" is the one atom for the character e-acute
Special == ("_" :> 95) @@ ("." :> 46) @@ ("-" :> 45) @@ ("~" :> 126) @@
           ("/" :> 47) @@ (" " :> 32) @@ ("%" :> 37) @@ ("?" :> 63) @@
           (":" :> 58) @@ ("=" :> 61) @@ ("{" :> 123) @@ ("}" :> 125) @@
           ("U+00E9" :> 233)

Range(s) == {s[i] : i \in 1..Len(s)}
Letters == Range(Lower) \cup Range(Upper)
Chars == Letters \cup Range(Digit) \cup DOMAIN Special

\* the code point of a character
CodePoint ==
    [c \in Chars |->
        IF c \in Range(Lower) THEN 96 + (CHOOSE i \in 1..26 : Lower[i] = c)
        ELSE IF c \in Range(Upper) THEN 64 + (CHOOSE i \in 1..26 : Upper[i] = c)
        ELSE IF c \in Range(Digit) THEN 47 + (CHOOSE i \in 1..10 : Digit[i] = c)
        ELSE Special[c]]
Ord(c) == CodePoint[c]

\* str.encode('utf-8') of one character
Utf8(c) ==
    LET cp == Ord(c)
    IN  IF cp < 128 THEN <<cp>> ELSE <<192 + (cp \div 64), 128 + (cp % 64)>>

HexUpper == <<"0","1","2","3","4","5","6","7","8","9","A","B","C","D","E","F">>

\* urllib.parse._ALWAYS_SAFE: letters, digits and "_.-~"
AlwaysSafe == Letters \cup Range(Digit) \cup {"_", ".", "-", "~"}

\* one byte of the quoted output; `safe` is the set of extra safe characters
QuoteByte(b, safe) ==
    IF \E c \in AlwaysSafe \cup safe : Ord(c) = b
    THEN <<CHOOSE c \in AlwaysSafe \cup safe : Ord(c) = b>>
    ELSE <<"%", HexUpper[(b \div 16) + 1], HexUpper[(b % 16) + 1]>>

QuoteChar(c, safe) ==
    LET bs == Utf8(c) IN Flatten([i \in 1..Len(bs) |-> QuoteByte(bs[i], safe)])

\* the default of urllib.parse.quote, safe='/', in place of safe=''
QuoteDefaultSafe(chars, safe) ==
    LET quoted == [c \in Range(chars) |-> QuoteChar(c, {"/"})]
    IN  Flatten([i \in 1..Len(chars) |-> quoted[chars[i]]])

\* quote(arg.encode('utf-8'), safe=safe)
Quote(chars, safe) ==
    LET quoted == [c \in Range(chars) |-> QuoteChar(c, safe)]
    IN  Flatten([i \in 1..Len(chars) |-> quoted[chars[i]]])

\* the placeholders of str.format that the route templates use
Slots == <<"{0}", "{1}", "{2}", "{3}">>
IsSlot(a) == a \in Range(Slots)
SlotIndex(a) == (CHOOSE i \in 1..Len(Slots) : Slots[i] = a) - 1

\* path.format(*encoded_args): "{i}" takes the i-th argument
Format(path, encoded_args) ==
    Flatten([i \in 1..Len(path) |->
                IF IsSlot(path[i]) THEN encoded_args[SlotIndex(path[i]) + 1]
                ELSE <<path[i]>>])

\* _url(self, path, *args) of both clients
Url(c, path, args) ==
    LET encoded_args == [i \in 1..Len(args) |-> Quote(args[i].chars, {})]
    IN  c.api_base \o Format(path, encoded_args)

----------------------------------------------------------------------------
(* Exceptions.  Every operation of the model returns an outcome            *)
(*   [err, ret, sent, sink]                                                *)
(* err: the exception it raised (OK if none), ret: the value it returned,  *)
(* sent: the calls it made to `requests`, sink: the records it gave to     *)
(* log.info, both in order.                                                *)

OK == [exc |-> "none", var |-> "", msg |-> ""]
ValueError(var, msg) == [exc |-> "ValueError", var |-> var, msg |-> msg]
APIError == [exc |-> "APIError", var |-> "", msg |-> ""]
\* response.json() on a body that is not JSON
JSONDecodeError == [exc |-> "JSONDecodeError", var |-> "", msg |-> ""]
\* requests raising before any response exists (unreachable host, timeout)
ConnectionError == [exc |-> "ConnectionError", var |-> "", msg |-> ""]
KeyError(key) == [exc |-> "KeyError", var |-> key, msg |-> ""]
TypeError(msg) == [exc |-> "TypeError", var |-> "", msg |-> msg]

Raise(e) == [err |-> e, ret |-> None, sent |-> <<>>, sink |-> <<>>]

\* the first check, in program order, that raised
RECURSIVE FirstError(_)
FirstError(checks) ==
    IF checks = <<>> THEN OK
    ELSE IF checks[1] # OK THEN checks[1]
    ELSE FirstError(Tail(checks))

----------------------------------------------------------------------------
(* models.py: the closed enumerations.  A member is the pair of its class  *)
(* and its name; its .value is taken to be the name, as on the wire.       *)

Enum(cls, name) == [py |-> "enum", cls |-> cls, name |-> name]
EnumValue(e) == Str(<<e.name>>)
EnumName(e) == Str(<<e.name>>)
IsInstance(v, cls) == v.py = "enum" /\ v.cls = cls

DatasetType == {Enum("DatasetType", n) : n \in {"DB_TABLE", "STREAM"}}
SourceType == {Enum("SourceType", n) : n \in {"POSTGRESQL", "MYSQL"}}
JobType == {Enum("JobType", n) : n \in {"BATCH", "STREAM", "SERVICE"}}
DatasetType_STREAM == Enum("DatasetType", "STREAM")

----------------------------------------------------------------------------
(* Construction.  A client is its immutable configuration.                 *)

WO_API_PATH == <<"/", "api", "/", "v1">>
MC_API_PATH == <<"api", "/", "v1">>
USER_AGENT == Str(<<"marquez-python", "/", "VERSION">>)
HEADERS == ("User-Agent" :> USER_AGENT)

\* float(timeout_ms) / 1000.0, kept as the fraction <<timeout_ms, 1000>>
ToSeconds(timeout_ms) == <<timeout_ms, 1000>>

\* MarquezClientWO(url, timeout_ms): the url is not kept
MarquezClientWO(url, timeout_ms) ==
    [kind |-> "wo", api_base |-> WO_API_PATH,
     timeout |-> ToSeconds(timeout_ms), namespace_name |-> None]

\* MarquezClient(protocol, host, port, timeout_ms, namespace_name);
\* port is <<number, text>>
MarquezClient(protocol, host, port, timeout_ms, namespace_name) ==
    [kind |-> "query",
     api_base |->
        IF port[1] = 0 \/ port[1] = 8080 \/ port[1] = 80
        THEN <<protocol, ":", "/", "/", host, "/">> \o MC_API_PATH
        ELSE <<protocol, ":", "/", "/", host, ":", port[2], "/">> \o MC_API_PATH,
     timeout |-> ToSeconds(timeout_ms), namespace_name |-> namespace_name]

----------------------------------------------------------------------------
(* The transports.                                                         *)

\* what the service answers to one request: a response, or no response
NoResponse == [status |-> 0, json |-> None, text |-> None]
InvalidJson == [py |-> "invalid-json"]
Response(status, json) ==
    [status |-> status, json |-> json, text |-> Str(<<"text">>)]

\* requests.Response.raise_for_status(): HTTPError for 4xx and 5xx
RaisesHTTPError(status) == 400 <= status /\ status < 600

\* _response(self, response, as_json) of MarquezClient and of HttpBackend
HandleResponse(response, as_json) ==
    IF RaisesHTTPError(response.status) THEN Raise(APIError)
    ELSE IF ~as_json THEN [Raise(OK) EXCEPT !.ret = response.text]
    ELSE IF response.json = InvalidJson THEN Raise(JSONDecodeError)
    ELSE [Raise(OK) EXCEPT !.ret = response.json]

\* one call of requests.put / requests.post / requests.get
Request(method, url, headers, payload, params, timeout) ==
    [method |-> method, url |-> url, headers |-> headers,
     payload |-> payload, params |-> params, timeout |-> timeout]

\* requests.<method>(...) answered by `reply`, then self._response
Exchange(request, reply, as_json) ==
    IF reply = NoResponse
    THEN [Raise(ConnectionError) EXCEPT !.sent = <<request>>]
    ELSE [HandleResponse(reply, as_json) EXCEPT !.sent = <<request>>]

\* a _post that leaves the headers out
MC_post_without_headers(c, url, payload, as_json, reply) ==
    Exchange(Request("POST", url, EmptyMap, payload, None, c.timeout),
             reply, as_json)

\* a _post that sends its request again when the first attempt failed
MC_post_retrying(c, url, payload, as_json, reply) ==
    LET r == Exchange(Request("POST", url, HEADERS, payload, None, c.timeout),
                      reply, as_json)
    IN  IF r.err # OK THEN [r EXCEPT !.sent = r.sent \o r.sent] ELSE r

\* MarquezClient._post / _put / _get
MC_post(c, url, payload, as_json, reply) ==
    Exchange(Request("POST", url, HEADERS, payload, None, c.timeout),
             reply, as_json)
MC_put(c, url, payload, as_json, reply) ==
    Exchange(Request("PUT", url, HEADERS, payload, None, c.timeout),
             reply, as_json)
MC_get(c, url, params, as_json, reply) ==
    Exchange(Request("GET", url, HEADERS, None, params, c.timeout),
             reply, as_json)

\* HttpBackend(url), with the timeout its constructor reads from the
\* environment; its url is kept where the clients keep their api base
HttpBackend(url, timeout_ms) ==
    [kind |-> "backend", api_base |-> url,
     timeout |-> ToSeconds(timeout_ms), namespace_name |-> None]
\* HttpBackend.put / .post; as_json is always True
HB_put(b, path, headers, json, reply) ==
    Exchange(Request("PUT", b.api_base \o path, headers, json, None, b.timeout),
             reply, TRUE)
HB_post(b, path, headers, json, reply) ==
    Exchange(Request("POST", b.api_base \o path, headers, json, None, b.timeout),
             reply, TRUE)

\* what MarquezClientWO._post / _put hand to log.info
Details(method, url, payload) ==
    [method |-> method, path |-> url, headers |-> HEADERS, payload |-> payload]

\* a _post that writes its record twice
WO_post_logging_twice(url, payload) ==
    [Raise(OK) EXCEPT !.sink = <<Details("POST", url, payload),
                                 Details("POST", url, payload)>>]

\* MarquezClientWO._post / _put: no return statement, so None comes back
WO_post(url, payload) ==
    [Raise(OK) EXCEPT !.sink = <<Details("POST", url, payload)>>]

\* a _put that records its request as a POST
WO_put_recording_post(url, payload) ==
    [Raise(OK) EXCEPT !.sink = <<Details("POST", url, payload)>>]

WO_put(url, payload) ==
    [Raise(OK) EXCEPT !.sink = <<Details("PUT", url, payload)>>]

\* a payload that carries every optional key, supplied or not
OptAlways(key, value) == (key :> value)

\* `if value: payload[key] = value`
Opt(key, value) == IF Truthy(value) THEN (key :> value) ELSE EmptyMap

----------------------------------------------------------------------------
(* The route templates, as the calls of _url write them.                   *)

T_namespaces == <<"/", "namespaces">>
T_namespace == <<"/", "namespaces", "/", "{0}">>
T_sources == <<"/", "sources">>
T_source == <<"/", "sources", "/", "{0}">>
T_datasets == <<"/", "namespaces", "/", "{0}", "/", "datasets">>
T_dataset == <<"/", "namespaces", "/", "{0}", "/", "datasets", "/", "{1}">>
T_dataset_tag ==
    <<"/", "namespaces", "/", "{0}", "/", "datasets", "/", "{1}",
      "/", "tags", "/", "{2}">>
T_field_tag ==
    <<"/", "namespaces", "/", "{0}", "/", "datasets", "/", "{1}",
      "/", "fields", "/", "{2}", "/", "tags", "/", "{3}">>
T_jobs == <<"/", "namespaces", "/", "{0}", "/", "jobs">>
T_job == <<"/", "namespaces", "/", "{0}", "/", "jobs", "/", "{1}">>
T_runs == <<"/", "namespaces", "/", "{0}", "/", "jobs", "/", "{1}", "/", "runs">>
T_runs_external ==
    <<"/", "namespaces", "/", "{0}", "/", "jobs", "/", "{1}", "/", "runs",
      "?", "external_id", "=", "{2}">>
T_run == <<"/", "jobs", "/", "runs", "/", "{0}">>
T_run_action == <<"/", "jobs", "/", "runs", "/", "{0}", "/", "{1}">>
T_tags == <<"/", "tags">>

A_start == Str(<<"s", "t", "a", "r", "t">>)
A_complete == Str(<<"c", "o", "m", "p", "l", "e", "t", "e">>)
A_fail == Str(<<"f", "a", "i", "l">>)
A_abort == Str(<<"a", "b", "o", "r", "t">>)

----------------------------------------------------------------------------
(* uuid.UUID(hex): braces stripped, hyphens removed, then 32 hex digits.   *)
(* ('urn:' and 'uuid:' prefixes, which it also removes, and the signs and  *)
(* underscores int(hex, 16) tolerates, occur in no value of the model.)    *)

HexDigits == Range(Digit) \cup {"a", "b", "c", "d", "e", "f"}
                          \cup {"A", "B", "C", "D", "E", "F"}
NotHyphen(a) == a # "-"
RECURSIVE StripBraces(_)
StripBraces(s) ==
    IF s = <<>> THEN s
    ELSE IF s[1] \in {"{", "}"} THEN StripBraces(Tail(s))
    ELSE IF s[Len(s)] \in {"{", "}"} THEN StripBraces(SubSeq(s, 1, Len(s) - 1))
    ELSE s
\* int(hex, 16) of the 32 characters that remain
AllHex(hex) == Len(hex) = 32 /\ Range(hex) \subseteq HexDigits
UuidParses(chars) == AllHex(SelectSeq(StripBraces(chars), NotHyphen))

\* len(x) of a str
PyLen(v) == Len(v.chars)

\* 'NoneType' object has no attribute 'encode', raised inside _url
AttributeError == [exc |-> "AttributeError", var |-> "", msg |-> "encode"]
Encodable(args) == \A i \in 1..Len(args) : args[i].py = "str"

\* the outcome of statement r1 followed by statement r2
Then(r1, r2) ==
    IF r1.err # OK THEN r1
    ELSE [err |-> r2.err, ret |-> r2.ret,
          sent |-> r1.sent \o r2.sent, sink |-> r1.sink \o r2.sink]

----------------------------------------------------------------------------
(* MarquezClientWO: validation.                                            *)

WO_SHORT_LIMIT == 64
WO_LONG_LIMIT == 255
WO_SHORT_NAMES == {"namespace_name", "owner_name", "source_name"}

WO_is_none(variable_value, variable_name) ==
    IF ~Truthy(variable_value)
    THEN ValueError(variable_name, "must not be None")
    ELSE OK

WO_check_name_length(variable_value, variable_name) ==
    IF WO_is_none(variable_value, variable_name) # OK
    THEN WO_is_none(variable_value, variable_name)
    ELSE IF variable_name \in WO_SHORT_NAMES
    THEN IF PyLen(variable_value) > WO_SHORT_LIMIT
         THEN ValueError(variable_name, "must be <= 64")
         ELSE OK
    ELSE IF PyLen(variable_value) > WO_LONG_LIMIT
         THEN ValueError(variable_name, "must be <= 255")
         ELSE OK

WO_is_valid_uuid(variable_value, variable_name) ==
    IF WO_is_none(variable_value, variable_name) # OK
    THEN WO_is_none(variable_value, variable_name)
    ELSE IF ~UuidParses(variable_value.chars)
    THEN ValueError(variable_name, "must be a valid UUID")
    ELSE OK

WO_is_instance_of(variable_value, variable_enum_type) ==
    IF ~IsInstance(variable_value, variable_enum_type)
    THEN ValueError(variable_enum_type, "must be an instance of")
    ELSE OK

WO_is_valid_connection_url(connection_url) ==
    WO_is_none(connection_url, "connection_url")

----------------------------------------------------------------------------
(* MarquezClientWO: the operations.                                        *)

WO_create_namespace(c, namespace_name, owner_name, description) ==
    LET e == FirstError(<<
                WO_check_name_length(namespace_name, "namespace_name"),
                WO_check_name_length(owner_name, "owner_name")>>)
        payload == ("ownerName" :> owner_name) @@ Opt("description", description)
    IN  IF e # OK THEN Raise(e)
        ELSE WO_put(Url(c, T_namespace, <<namespace_name>>), payload)

WO_create_source(c, source_name, source_type, connection_url, description) ==
    LET e == FirstError(<<
                WO_check_name_length(source_name, "source_name"),
                WO_is_instance_of(source_type, "SourceType"),
                WO_is_valid_connection_url(connection_url)>>)
        payload == ("type" :> EnumValue(source_type)) @@
                   ("connectionUrl" :> connection_url) @@
                   Opt("description", description)
    IN  IF e # OK THEN Raise(e)
        ELSE WO_put(Url(c, T_source, <<source_name>>), payload)

\* a create_dataset that takes only a UUID for run_id
WO_create_dataset_parsing_run_id(c, namespace_name, dataset_name, dataset_type, physical_name, source_name, run_id, description, schema_location, fields, tags) ==
    LET e == FirstError(<<
                WO_check_name_length(namespace_name, "namespace_name"),
                WO_check_name_length(dataset_name, "dataset_name"),
                WO_is_instance_of(dataset_type, "DatasetType"),
                IF dataset_type = DatasetType_STREAM
                THEN WO_is_none(schema_location, "schema_location")
                ELSE OK,
                WO_is_valid_uuid(run_id, "run_id"),
                WO_check_name_length(physical_name, "physical_name"),
                WO_check_name_length(source_name, "source_name")>>)
        payload == ("type" :> EnumValue(dataset_type)) @@
                   ("physicalName" :> physical_name) @@
                   ("sourceName" :> source_name) @@
                   ("runId" :> run_id) @@
                   Opt("description", description) @@
                   Opt("fields", fields) @@
                   Opt("tags", tags) @@
                   Opt("schemaLocation", schema_location)
    IN  IF e # OK THEN Raise(e)
        ELSE WO_put(Url(c, T_dataset, <<namespace_name, dataset_name>>), payload)

WO_create_dataset(c, namespace_name, dataset_name, dataset_type, physical_name, source_name, run_id, description, schema_location, fields, tags) ==
    LET e == FirstError(<<
                WO_check_name_length(namespace_name, "namespace_name"),
                WO_check_name_length(dataset_name, "dataset_name"),
                WO_is_instance_of(dataset_type, "DatasetType"),
                IF dataset_type = DatasetType_STREAM
                THEN WO_is_none(schema_location, "schema_location")
                ELSE OK,
                WO_is_none(run_id, "run_id"),
                WO_check_name_length(physical_name, "physical_name"),
                WO_check_name_length(source_name, "source_name")>>)
        payload == ("type" :> EnumValue(dataset_type)) @@
                   ("physicalName" :> physical_name) @@
                   ("sourceName" :> source_name) @@
                   ("runId" :> run_id) @@
                   Opt("description", description) @@
                   Opt("fields", fields) @@
                   Opt("tags", tags) @@
                   Opt("schemaLocation", schema_location)
    IN  IF e # OK THEN Raise(e)
        ELSE WO_put(Url(c, T_dataset, <<namespace_name, dataset_name>>), payload)

\* self._post(url) lacks the required positional argument `payload`
MissingPayload == TypeError("_post() missing 1 required positional argument: 'payload'")

WO_tag_dataset(c, namespace_name, dataset_name, tag_name) ==
    LET e == FirstError(<<
                WO_check_name_length(namespace_name, "namespace_name"),
                WO_check_name_length(dataset_name, "dataset_name"),
                IF ~Truthy(tag_name)
                THEN ValueError("tag_name", "must not be None") ELSE OK>>)
    IN  IF e # OK THEN Raise(e)
        ELSE IF ~Encodable(<<tag_name>>) THEN Raise(AttributeError)
        ELSE Raise(MissingPayload)

WO_tag_dataset_field(c, namespace_name, dataset_name, field_name, tag_name) ==
    LET e == FirstError(<<
                WO_check_name_length(namespace_name, "namespace_name"),
                WO_check_name_length(dataset_name, "dataset_name"),
                WO_check_name_length(field_name, "field_name"),
                WO_check_name_length(tag_name, "tag_name")>>)
    IN  IF e # OK THEN Raise(e) ELSE Raise(MissingPayload)

WO_create_job(c, namespace_name, job_name, job_type, location, input_dataset, output_dataset, description, context) ==
    LET e == FirstError(<<
                WO_check_name_length(namespace_name, "namespace_name"),
                WO_check_name_length(job_name, "job_name"),
                WO_is_instance_of(job_type, "JobType")>>)
        payload == ("inputs" :> PyOr(input_dataset, List(<<>>))) @@
                   ("outputs" :> PyOr(output_dataset, List(<<>>))) @@
                   ("type" :> EnumName(job_type)) @@
                   Opt("context", context) @@
                   Opt("location", location) @@
                   Opt("description", description)
    IN  IF e # OK THEN Raise(e)
        ELSE WO_put(Url(c, T_job, <<namespace_name, job_name>>), payload)

\* a __mark_job_run_as that refuses a run it has already marked
WO_mark_job_run_as_tracking(c, run_id, action) ==
    IF WO_is_valid_uuid(run_id, "run_id") # OK
    THEN Raise(WO_is_valid_uuid(run_id, "run_id"))
    ELSE IF \E i \in 1..Len(sink) :
                \E a \in {A_start, A_complete, A_fail, A_abort} :
                    sink[i].path = Url(c, T_run_action, <<run_id, a>>)
    THEN Raise(ValueError("run_id", "already marked"))
    ELSE WO_post(Url(c, T_run_action, <<run_id, action>>), EmptyMap)

WO_mark_job_run_as(c, run_id, action) ==
    IF WO_is_valid_uuid(run_id, "run_id") # OK
    THEN Raise(WO_is_valid_uuid(run_id, "run_id"))
    ELSE WO_post(Url(c, T_run_action, <<run_id, action>>), EmptyMap)

WO_mark_job_run_as_started(c, run_id) == WO_mark_job_run_as(c, run_id, A_start)
WO_mark_job_run_as_completed(c, run_id) == WO_mark_job_run_as(c, run_id, A_complete)
WO_mark_job_run_as_failed(c, run_id) == WO_mark_job_run_as(c, run_id, A_fail)
WO_mark_job_run_as_aborted(c, run_id) == WO_mark_job_run_as(c, run_id, A_abort)

\* a create_job_run that marks the run as started before it creates it
WO_create_job_run_start_first(c, namespace_name, job_name, run_id, nominal_start_time, nominal_end_time, run_args, mark_as_running) ==
    LET e == FirstError(<<
                WO_check_name_length(namespace_name, "namespace_name"),
                WO_check_name_length(job_name, "job_name")>>)
        payload == Opt("nominalStartTime", nominal_start_time) @@
                   Opt("nominalEndTime", nominal_end_time) @@
                   Opt("runArgs", run_args)
        created == WO_post(Url(c, T_runs_external,
                               <<namespace_name, job_name, run_id>>), payload)
    IN  IF e # OK THEN Raise(e)
        ELSE IF ~Encodable(<<run_id>>) THEN Raise(AttributeError)
        ELSE IF Truthy(mark_as_running)
        THEN Then(WO_mark_job_run_as_started(c, run_id), created)
        ELSE created

WO_create_job_run(c, namespace_name, job_name, run_id, nominal_start_time, nominal_end_time, run_args, mark_as_running) ==
    LET e == FirstError(<<
                WO_check_name_length(namespace_name, "namespace_name"),
                WO_check_name_length(job_name, "job_name")>>)
        payload == Opt("nominalStartTime", nominal_start_time) @@
                   Opt("nominalEndTime", nominal_end_time) @@
                   Opt("runArgs", run_args)
        created == WO_post(Url(c, T_runs_external,
                               <<namespace_name, job_name, run_id>>), payload)
    IN  IF e # OK THEN Raise(e)
        ELSE IF ~Encodable(<<run_id>>) THEN Raise(AttributeError)
        ELSE IF Truthy(mark_as_running)
        THEN Then(created, WO_mark_job_run_as_started(c, run_id))
        ELSE created

----------------------------------------------------------------------------
(* MarquezClient: validation.  Each `if not x: raise` / `if len(x) > L:    *)
(* raise` pair of the code is the two checks MC_not_none, MC_max_length;   *)
(* the length is only measured once the value is known to be non-empty.    *)

NAMESPACE_LENGTH_LIMIT == 1024
SOURCE_LENGTH_LIMIT == 1024
DATASET_LENGTH_LIMIT == 1024
JOB_LENGTH_LIMIT == 1024

MC_not_none(value, name) ==
    IF ~Truthy(value) THEN ValueError(name, "must not be None") ELSE OK

MC_max_length(value, name, limit) ==
    IF Truthy(value) /\ PyLen(value) > limit
    THEN ValueError(name, "length is {0}, must be <= {1}")
    ELSE OK

MC_namespace_checks(namespace_name) ==
    <<MC_not_none(namespace_name, "namespace_name"),
      MC_max_length(namespace_name, "namespace_name", NAMESPACE_LENGTH_LIMIT)>>
MC_source_checks(source_name) ==
    <<MC_not_none(source_name, "source_name"),
      MC_max_length(source_name, "source_name", SOURCE_LENGTH_LIMIT)>>
MC_dataset_checks(dataset_name) ==
    <<MC_not_none(dataset_name, "dataset_name"),
      MC_max_length(dataset_name, "dataset_name", DATASET_LENGTH_LIMIT)>>
MC_job_checks(job_name) ==
    <<MC_not_none(job_name, "job_name"),
      MC_max_length(job_name, "job_name", JOB_LENGTH_LIMIT)>>

----------------------------------------------------------------------------
(* MarquezClient: the operations.  `reply` is what the service answers.    *)

MC_create_namespace(c, namespace_name, owner_name, description, reply) ==
    LET e == FirstError(MC_namespace_checks(namespace_name) \o
                        <<MC_not_none(owner_name, "owner_name")>>)
        payload == ("ownerName" :> owner_name) @@ Opt("description", description)
    IN  IF e # OK THEN Raise(e)
        ELSE MC_put(c, Url(c, T_namespace, <<namespace_name>>), payload, TRUE,
                    reply)

MC_create_source(c, source_name, source_type, connection_url, description, reply) ==
    LET e == FirstError(MC_source_checks(source_name) \o <<
                MC_not_none(connection_url, "connection_url"),
                IF ~IsInstance(source_type, "SourceType")
                THEN ValueError("source_type", "must be instance of SourceType")
                ELSE OK>>)
        payload == ("type" :> EnumValue(source_type)) @@
                   ("connectionUrl" :> connection_url) @@
                   Opt("description", description)
    IN  IF e # OK THEN Raise(e)
        ELSE MC_put(c, Url(c, T_source, <<source_name>>), payload, TRUE, reply)

\* create_dataset without the STREAM rule
MC_stream_check_dropped(dataset_type, schema_location) == OK

\* `if dataset_type == DatasetType.STREAM and not schema_location: raise`
MC_stream_check(dataset_type, schema_location) ==
    IF dataset_type = DatasetType_STREAM /\ ~Truthy(schema_location)
    THEN ValueError("schema_location", "STREAM type datasets must have")
    ELSE OK

MC_create_dataset(c, namespace_name, dataset_name, dataset_type, physical_name, source_name, description, run_id, schema_location, fields, tags, reply) ==
    LET e == FirstError(MC_namespace_checks(namespace_name) \o
                        MC_dataset_checks(dataset_name) \o <<
                IF ~IsInstance(dataset_type, "DatasetType")
                THEN ValueError("dataset_type", "must be instance of DatasetType")
                ELSE OK,
                MC_stream_check(dataset_type, schema_location),
                MC_not_none(physical_name, "physical_name")>> \o
                        MC_source_checks(source_name))
        payload == ("type" :> EnumValue(dataset_type)) @@
                   ("physicalName" :> physical_name) @@
                   ("sourceName" :> source_name) @@
                   Opt("description", description) @@
                   Opt("runId", run_id) @@
                   Opt("fields", fields) @@
                   Opt("tags", tags) @@
                   Opt("schemaLocation", schema_location)
    IN  IF e # OK THEN Raise(e)
        ELSE MC_put(c, Url(c, T_dataset, <<namespace_name, dataset_name>>),
                    payload, TRUE, reply)

MC_tag_dataset(c, namespace_name, dataset_name, tag_name) ==
    LET e == FirstError(MC_namespace_checks(namespace_name) \o
                        MC_dataset_checks(dataset_name) \o
                        <<MC_not_none(tag_name, "tag_name")>>)
    IN  IF e # OK THEN Raise(e) ELSE Raise(MissingPayload)

MC_tag_dataset_field(c, namespace_name, dataset_name, field_name, tag_name) ==
    LET e == FirstError(MC_namespace_checks(namespace_name) \o
                        MC_dataset_checks(dataset_name) \o
                        <<MC_not_none(field_name, "field_name"),
                          MC_not_none(tag_name, "tag_name")>>)
    IN  IF e # OK THEN Raise(e) ELSE Raise(MissingPayload)

\* 'type' carries the JobType member itself, not its name
MC_create_job(c, namespace_name, job_name, job_type, location, input_dataset, output_dataset, description, context, reply) ==
    LET e == FirstError(MC_namespace_checks(namespace_name) \o
                        MC_job_checks(job_name) \o <<
                IF ~IsInstance(job_type, "JobType")
                THEN ValueError("job_type", "must be instance of JobType")
                ELSE OK>>)
        payload == ("inputs" :> PyOr(input_dataset, List(<<>>))) @@
                   ("outputs" :> PyOr(output_dataset, List(<<>>))) @@
                   ("type" :> job_type) @@
                   Opt("context", context) @@
                   Opt("location", location) @@
                   Opt("description", description)
    IN  IF e # OK THEN Raise(e)
        ELSE MC_put(c, Url(c, T_job, <<namespace_name, job_name>>), payload,
                    TRUE, reply)

MC_mark_job_run_as(c, run_id, action, reply) ==
    IF ~Truthy(run_id) THEN Raise(ValueError("run_id", "must not be None"))
    ELSE IF ~Encodable(<<run_id>>) THEN Raise(AttributeError)
    ELSE MC_post(c, Url(c, T_run_action, <<run_id, action>>), EmptyMap, TRUE,
                 reply)

MC_mark_job_run_as_started(c, run_id, reply) ==
    MC_mark_job_run_as(c, run_id, A_start, reply)
MC_mark_job_run_as_completed(c, run_id, reply) ==
    MC_mark_job_run_as(c, run_id, A_complete, reply)
MC_mark_job_run_as_failed(c, run_id, reply) ==
    MC_mark_job_run_as(c, run_id, A_fail, reply)
MC_mark_job_run_as_aborted(c, run_id, reply) ==
    MC_mark_job_run_as(c, run_id, A_abort, reply)

\* response['runId'] of the decoded creation response
RunIdOf(response) ==
    IF response.py = "dict" /\ "runId" \in DOMAIN response.map
    THEN [Raise(OK) EXCEPT !.ret = response.map["runId"]]
    ELSE IF response.py = "dict" THEN Raise(KeyError("runId"))
    ELSE Raise(TypeError("response is not subscriptable by 'runId'"))

MC_create_job_run(c, namespace_name, job_name, nominal_start_time, nominal_end_time, run_args, mark_as_running, reply, reply2) ==
    LET e == FirstError(MC_namespace_checks(namespace_name) \o
                        MC_job_checks(job_name))
        payload == Opt("nominalStartTime", nominal_start_time) @@
                   Opt("nominalEndTime", nominal_end_time) @@
                   Opt("runArgs", run_args)
        created == MC_post(c, Url(c, T_runs, <<namespace_name, job_name>>),
                           payload, TRUE, reply)
        run_id == RunIdOf(created.ret)
    IN  IF e # OK THEN Raise(e)
        ELSE IF created.err # OK \/ ~Truthy(mark_as_running) THEN created
        ELSE IF run_id.err # OK THEN Then(created, run_id)
        ELSE Then(created, MC_mark_job_run_as_started(c, run_id.ret, reply2))

\* params={'limit': limit, 'offset': offset}
Paging(limit, offset) == ("limit" :> limit) @@ ("offset" :> offset)

MC_get_namespace(c, namespace_name, reply) ==
    LET e == FirstError(MC_namespace_checks(namespace_name))
    IN  IF e # OK THEN Raise(e)
        ELSE MC_get(c, Url(c, T_namespace, <<namespace_name>>), None, TRUE, reply)

MC_get_dataset(c, namespace_name, dataset_name, reply) ==
    LET e == FirstError(MC_namespace_checks(namespace_name) \o
                        MC_dataset_checks(dataset_name))
    IN  IF e # OK THEN Raise(e)
        ELSE MC_get(c, Url(c, T_dataset, <<namespace_name, dataset_name>>), None,
                    TRUE, reply)

MC_list_datasets(c, namespace_name, limit, offset, reply) ==
    LET e == FirstError(MC_namespace_checks(namespace_name))
    IN  IF e # OK THEN Raise(e)
        ELSE MC_get(c, Url(c, T_datasets, <<namespace_name>>),
                    Paging(limit, offset), TRUE, reply)

MC_get_job(c, namespace_name, job_name, reply) ==
    LET e == FirstError(MC_namespace_checks(namespace_name) \o
                        MC_job_checks(job_name))
    IN  IF e # OK THEN Raise(e)
        ELSE MC_get(c, Url(c, T_job, <<namespace_name, job_name>>), None, TRUE,
                    reply)

MC_list_jobs(c, namespace_name, limit, offset, reply) ==
    LET e == FirstError(MC_namespace_checks(namespace_name))
    IN  IF e # OK THEN Raise(e)
        ELSE MC_get(c, Url(c, T_jobs, <<namespace_name>>), Paging(limit, offset),
                    TRUE, reply)

\* only job_name is checked; namespace_name goes to _url as it came
MC_list_job_runs(c, namespace_name, job_name, limit, offset, reply) ==
    LET e == FirstError(MC_job_checks(job_name))
    IN  IF e # OK THEN Raise(e)
        ELSE IF ~Encodable(<<namespace_name>>) THEN Raise(AttributeError)
        ELSE MC_get(c, Url(c, T_runs, <<namespace_name, job_name>>),
                    Paging(limit, offset), TRUE, reply)

----------------------------------------------------------------------------
(* The values the calls of the model are made with.                        *)

Name(n) == Str(Rep("a", n))
UUID_A == Rep("1", 8) \o <<"-">> \o Rep("2", 4) \o <<"-", "4">> \o Rep("3", 3)
          \o <<"-", "a">> \o Rep("b", 3) \o <<"-">> \o Rep("c", 12)
UUID_B == Rep("9", 8) \o <<"-">> \o Rep("8", 4) \o <<"-", "4">> \o Rep("7", 3)
          \o <<"-", "b">> \o Rep("e", 3) \o <<"-">> \o Rep("f", 12)
\* 32 hex digits without hyphens: uuid.UUID parses it
UUID_PLAIN == Rep("d", 32)
NOT_UUID == <<"n", "o", "t", "-", "a", "-", "u", "u", "i", "d">>
\* the shape of a UUID with one digit that is not hexadecimal
BAD_HEX == <<"g">> \o Tail(UUID_A)
SLASHED == <<"a", "/", "b", " ", "c">>

FieldDict == Dict(("name" :> Str(<<"f">>)) @@ ("type" :> Str(<<"INTEGER">>)))
ArgsDict == Dict(("k" :> Str(<<"v">>)))
ResourceJson == Dict(("runId" :> Str(UUID_B)))

\* the valid call that supplies no optional argument
Minimal ==
    [namespace_name |-> Str(<<"n", "s", "1">>),
     owner_name |-> Str(<<"o", "w", "n", "e", "r", "1">>),
     source_name |-> Str(<<"s", "r", "c">>),
     dataset_name |-> Str(<<"d", "s">>),
     job_name |-> Str(<<"j", "o", "b">>),
     field_name |-> Str(<<"f">>),
     tag_name |-> Str(<<"t", "a", "g">>),
     physical_name |-> Str(<<"t", ".", "x">>),
     connection_url |-> Str(<<"j", "d", "b", "c", ":", "/", "/", "h">>),
     source_type |-> Enum("SourceType", "POSTGRESQL"),
     dataset_type |-> Enum("DatasetType", "DB_TABLE"),
     job_type |-> Enum("JobType", "BATCH"),
     run_id |-> Str(UUID_A),
     description |-> None,
     schema_location |-> None,
     fields |-> None,
     tags |-> None,
     location |-> None,
     input_dataset |-> None,
     output_dataset |-> None,
     context |-> None,
     nominal_start_time |-> None,
     nominal_end_time |-> None,
     run_args |-> None,
     mark_as_running |-> Bool(FALSE),
     limit |-> None,
     offset |-> None,
     reply |-> Response(200, ResourceJson),
     reply2 |-> Response(200, ResourceJson)]

\* the valid call that supplies every optional argument
Full ==
    [Minimal EXCEPT
        !.dataset_type = Enum("DatasetType", "STREAM"),
        !.description = Str(<<"x", "y">>),
        !.schema_location = Str(<<"x", "y">>),
        !.fields = List(<<FieldDict>>),
        !.tags = List(<<Str(<<"d", "s">>)>>),
        !.location = Str(<<"x", "y">>),
        !.input_dataset = List(<<Str(<<"d", "s">>)>>),
        !.output_dataset = List(<<Str(<<"d", "s">>)>>),
        !.context = ArgsDict,
        !.nominal_start_time = Str(<<"x", "y">>),
        !.nominal_end_time = Str(<<"x", "y">>),
        !.run_args = ArgsDict,
        !.mark_as_running = Bool(TRUE),
        !.limit = Int(10),
        !.offset = Int(0)]
Baselines == {Minimal, Full}

NameValues ==
    {None, Str(<<>>), Str(SLASHED), Name(64), Name(65), Name(255), Name(256),
     Name(1024), Name(1025)}
TextValues == {None, Str(<<>>), Str(<<"x", "y">>)}
ListValues == {None, List(<<>>), List(<<Str(<<"d", "s">>)>>)}
MapValues == {None, Dict(EmptyMap), ArgsDict}
RunIdValues ==
    {None, Str(<<>>), Str(UUID_A), Str(UUID_PLAIN), Str(NOT_UUID), Str(BAD_HEX)}
ReplyValues ==
    {Response(st, ResourceJson) : st \in {200, 201, 299, 304, 400, 500, 599}}
    \cup {Response(200, Dict(EmptyMap)), Response(204, InvalidJson), NoResponse}

Values(f) ==
    CASE f \in {"namespace_name", "owner_name", "source_name", "dataset_name",
                "job_name", "field_name", "tag_name"} -> NameValues
      [] f = "physical_name" -> {None, Str(<<>>), Name(255), Name(256)}
      [] f = "connection_url" -> {None, Str(<<>>)}
      [] f = "source_type" -> SourceType \cup {Str(<<"MYSQL">>)}
      [] f = "dataset_type" -> DatasetType \cup {Str(<<"STREAM">>)}
      [] f = "job_type" -> JobType \cup {Str(<<"BATCH">>)}
      [] f = "run_id" -> RunIdValues
      [] f \in {"description", "schema_location", "location",
                "nominal_start_time", "nominal_end_time"} -> TextValues
      [] f = "fields" -> {None, List(<<>>), List(<<FieldDict>>)}
      [] f \in {"tags", "input_dataset", "output_dataset"} -> ListValues
      [] f \in {"context", "run_args"} -> MapValues
      [] f = "mark_as_running" -> {Bool(FALSE), Bool(TRUE)}
      [] f \in {"limit", "offset"} -> {None, Int(0), Int(10)}
      [] f \in {"reply", "reply2"} -> ReplyValues

\* the records that differ from rec in at most k of the given fields
RECURSIVE Vary(_, _, _)
Vary(rec, fs, k) ==
    IF k = 0 \/ fs = {} THEN {rec}
    ELSE LET f == CHOOSE f \in fs : TRUE
         IN  Vary(rec, fs \ {f}, k) \cup
             UNION {Vary([rec EXCEPT ![f] = v], fs \ {f}, k - 1) :
                        v \in Values(f) \ {rec[f]}}

\* the arguments of one call; the query-capable client also draws the replies
Inputs(fs, replies) ==
    LET all == IF client.kind = "query" THEN fs \cup replies ELSE fs
    IN  UNION {Vary([f \in all |-> b[f]], all, MaxDeviations) : b \in Baselines}

F_create_namespace == {"namespace_name", "owner_name", "description"}
F_create_source == {"source_name", "source_type", "connection_url", "description"}
F_create_dataset ==
    {"namespace_name", "dataset_name", "dataset_type", "physical_name",
     "source_name", "run_id", "description", "schema_location", "fields", "tags"}
F_create_job ==
    {"namespace_name", "job_name", "job_type", "location", "input_dataset",
     "output_dataset", "description", "context"}
F_create_job_run ==
    {"namespace_name", "job_name", "run_id", "nominal_start_time",
     "nominal_end_time", "run_args", "mark_as_running"}
F_tag_dataset == {"namespace_name", "dataset_name", "tag_name"}
F_tag_dataset_field == {"namespace_name", "dataset_name", "field_name", "tag_name"}
F_mark == {"run_id"}

----------------------------------------------------------------------------
(* The state: the object under test, what reached `requests` (sent) and    *)
(* log.info (sink) since it was constructed, and the last call made on it. *)

NoCall ==
    [op |-> "none", args |-> EmptyMap, err |-> OK, ret |-> None,
     sent |-> <<>>, sink |-> <<>>]

TheClientWO == MarquezClientWO(<<"http", ":", "/", "/", "localhost">>, 10000)
TheClient == MarquezClient("http", "localhost", <<5000, "5000">>, 10000,
                           Str(<<"d", "e", "f", "a", "u", "l", "t">>))
Clients == {TheClientWO, TheClient}
TheBackend == HttpBackend(<<"http", ":", "/", "/", "localhost", ":", "5000">>,
                          10000)

\* the callers that share the client, and a caller that has made no call
Callers == 1..NumCallers
Idle == [pc |-> "idle", op |-> "none", args |-> EmptyMap, out |-> <<>>]

Init ==
    /\ client \in Clients \cup {TheBackend}
    /\ inflight = [k \in Callers |-> Idle]
    /\ sent = <<>>
    /\ sink = <<>>
    /\ last = NoCall
    /\ ncalls = 0

\* one call returns (or raises) with outcome r
Do(op, args, r) ==
    /\ ncalls' = ncalls + 1
    /\ sent' = sent \o r.sent
    /\ sink' = sink \o r.sink
    /\ last' = [op |-> op, args |-> args, err |-> r.err, ret |-> r.ret,
                sent |-> r.sent, sink |-> r.sink]
    /\ UNCHANGED <<client, inflight>>

create_namespace(a) ==
    Do("create_namespace", a,
       IF client.kind = "wo"
       THEN WO_create_namespace(client, a.namespace_name, a.owner_name,
                                a.description)
       ELSE MC_create_namespace(client, a.namespace_name, a.owner_name,
                                a.description, a.reply))

create_source(a) ==
    Do("create_source", a,
       IF client.kind = "wo"
       THEN WO_create_source(client, a.source_name, a.source_type,
                             a.connection_url, a.description)
       ELSE MC_create_source(client, a.source_name, a.source_type,
                             a.connection_url, a.description, a.reply))

create_dataset(a) ==
    Do("create_dataset", a,
       IF client.kind = "wo"
       THEN WO_create_dataset(client, a.namespace_name, a.dataset_name,
                              a.dataset_type, a.physical_name, a.source_name,
                              a.run_id, a.description, a.schema_location,
                              a.fields, a.tags)
       ELSE MC_create_dataset(client, a.namespace_name, a.dataset_name,
                              a.dataset_type, a.physical_name, a.source_name,
                              a.description, a.run_id, a.schema_location,
                              a.fields, a.tags, a.reply))

create_job(a) ==
    Do("create_job", a,
       IF client.kind = "wo"
       THEN WO_create_job(client, a.namespace_name, a.job_name, a.job_type,
                          a.location, a.input_dataset, a.output_dataset,
                          a.description, a.context)
       ELSE MC_create_job(client, a.namespace_name, a.job_name, a.job_type,
                          a.location, a.input_dataset, a.output_dataset,
                          a.description, a.context, a.reply))

\* the query-capable create_job_run takes no run_id
create_job_run(a) ==
    Do("create_job_run", a,
       IF client.kind = "wo"
       THEN WO_create_job_run(client, a.namespace_name, a.job_name, a.run_id,
                              a.nominal_start_time, a.nominal_end_time,
                              a.run_args, a.mark_as_running)
       ELSE MC_create_job_run(client, a.namespace_name, a.job_name,
                              a.nominal_start_time, a.nominal_end_time,
                              a.run_args, a.mark_as_running, a.reply, a.reply2))

tag_dataset(a) ==
    Do("tag_dataset", a,
       IF client.kind = "wo"
       THEN WO_tag_dataset(client, a.namespace_name, a.dataset_name, a.tag_name)
       ELSE MC_tag_dataset(client, a.namespace_name, a.dataset_name, a.tag_name))

tag_dataset_field(a) ==
    Do("tag_dataset_field", a,
       IF client.kind = "wo"
       THEN WO_tag_dataset_field(client, a.namespace_name, a.dataset_name,
                                 a.field_name, a.tag_name)
       ELSE MC_tag_dataset_field(client, a.namespace_name, a.dataset_name,
                                 a.field_name, a.tag_name))

mark_job_run_as_started(a) ==
    Do("mark_job_run_as_started", a,
       IF client.kind = "wo" THEN WO_mark_job_run_as_started(client, a.run_id)
       ELSE MC_mark_job_run_as_started(client, a.run_id, a.reply))
mark_job_run_as_completed(a) ==
    Do("mark_job_run_as_completed", a,
       IF client.kind = "wo" THEN WO_mark_job_run_as_completed(client, a.run_id)
       ELSE MC_mark_job_run_as_completed(client, a.run_id, a.reply))
mark_job_run_as_failed(a) ==
    Do("mark_job_run_as_failed", a,
       IF client.kind = "wo" THEN WO_mark_job_run_as_failed(client, a.run_id)
       ELSE MC_mark_job_run_as_failed(client, a.run_id, a.reply))
mark_job_run_as_aborted(a) ==
    Do("mark_job_run_as_aborted", a,
       IF client.kind = "wo" THEN WO_mark_job_run_as_aborted(client, a.run_id)
       ELSE MC_mark_job_run_as_aborted(client, a.run_id, a.reply))

----------------------------------------------------------------------------
(* Spec: one call on a freshly constructed client, with arguments that     *)
(* differ from a baseline call in at most MaxDeviations places.            *)

Fresh == ncalls = 0 /\ client \in Clients

CreateNamespace ==
    Fresh /\ \E a \in Inputs(F_create_namespace, {"reply"}) : create_namespace(a)
CreateSource ==
    Fresh /\ \E a \in Inputs(F_create_source, {"reply"}) : create_source(a)
CreateDataset ==
    Fresh /\ \E a \in Inputs(F_create_dataset, {"reply"}) : create_dataset(a)
CreateJob ==
    Fresh /\ \E a \in Inputs(F_create_job, {"reply"}) : create_job(a)
CreateJobRun ==
    Fresh /\ \E a \in Inputs(IF client.kind = "wo" THEN F_create_job_run
                             ELSE F_create_job_run \ {"run_id"},
                             {"reply", "reply2"}) : create_job_run(a)
TagDataset ==
    Fresh /\ \E a \in Inputs(F_tag_dataset, {}) : tag_dataset(a)
TagDatasetField ==
    Fresh /\ \E a \in Inputs(F_tag_dataset_field, {}) : tag_dataset_field(a)
MarkStarted ==
    Fresh /\ \E a \in Inputs(F_mark, {"reply"}) : mark_job_run_as_started(a)
MarkCompleted ==
    Fresh /\ \E a \in Inputs(F_mark, {"reply"}) : mark_job_run_as_completed(a)
MarkFailed ==
    Fresh /\ \E a \in Inputs(F_mark, {"reply"}) : mark_job_run_as_failed(a)
MarkAborted ==
    Fresh /\ \E a \in Inputs(F_mark, {"reply"}) : mark_job_run_as_aborted(a)

\* the read operations; only the query-capable client has them
Query == ncalls = 0 /\ client = TheClient

GetNamespace ==
    Query /\ \E a \in Inputs({"namespace_name"}, {"reply"}) :
        Do("get_namespace", a, MC_get_namespace(client, a.namespace_name, a.reply))
GetDataset ==
    Query /\ \E a \in Inputs({"namespace_name", "dataset_name"}, {"reply"}) :
        Do("get_dataset", a,
           MC_get_dataset(client, a.namespace_name, a.dataset_name, a.reply))
ListDatasets ==
    Query /\ \E a \in Inputs({"namespace_name", "limit", "offset"}, {"reply"}) :
        Do("list_datasets", a,
           MC_list_datasets(client, a.namespace_name, a.limit, a.offset, a.reply))
GetJob ==
    Query /\ \E a \in Inputs({"namespace_name", "job_name"}, {"reply"}) :
        Do("get_job", a, MC_get_job(client, a.namespace_name, a.job_name, a.reply))
ListJobs ==
    Query /\ \E a \in Inputs({"namespace_name", "limit", "offset"}, {"reply"}) :
        Do("list_jobs", a,
           MC_list_jobs(client, a.namespace_name, a.limit, a.offset, a.reply))
ListJobRuns ==
    Query /\ \E a \in Inputs({"namespace_name", "job_name", "limit", "offset"},
                              {"reply"}) :
        Do("list_job_runs", a,
           MC_list_job_runs(client, a.namespace_name, a.job_name, a.limit,
                            a.offset, a.reply))

----------------------------------------------------------------------------
(* Direct calls of the path builder and of the synchronous transport.      *)

Templates ==
    {T_namespaces, T_namespace, T_sources, T_source, T_datasets, T_dataset,
     T_dataset_tag, T_field_tag, T_jobs, T_job, T_runs, T_runs_external,
     T_run, T_run_action, T_tags}
NumSlots(path) == Cardinality({i \in 1..Len(path) : IsSlot(path[i])})

UrlAlphabet == {"a", "~", "/", " ", "%", "U+00E9"}
Strs(n) == UNION {[1..m -> UrlAlphabet] : m \in 0..n}
\* the k-tuples of str that hold at most n characters together
RECURSIVE Tuples(_, _)
Tuples(k, n) ==
    IF k = 0 THEN {<<>>}
    ELSE UNION {{<<Str(s)>> \o t : t \in Tuples(k - 1, n - Len(s))} :
                    s \in Strs(n)}
UrlExamples ==
    {<<Str(SLASHED)>>,
     <<Str(<<"n", "s", "-", "1">>), Str(SLASHED)>>,
     <<Str(UUID_A), A_start>>,
     <<Str(<<"A", "7", "_", ".">>), Str(<<"?", "=">>), Str(SLASHED)>>,
     <<Str(<<"a">>), Str(<<"b">>), Str(<<"c">>), Str(<<"d">>)>>}
UrlInputs(path) ==
    Tuples(NumSlots(path), MaxUrlChars)
    \cup {t \in UrlExamples : Len(t) = NumSlots(path)}

BuildUrl ==
    /\ Fresh
    /\ \E path \in Templates : \E args \in UrlInputs(path) :
          Do("_url", [path |-> path, args |-> args],
             [Raise(OK) EXCEPT !.ret = Str(Url(client, path, args))])

Statuses ==
    {100, 199, 200, 201, 204, 299, 300, 304, 399, 400, 404, 499, 500, 503,
     599, 600}
TransportReplies ==
    {Response(st, j) : st \in Statuses, j \in {ResourceJson, InvalidJson}}
    \cup {NoResponse}
TransportInputs ==
    [path : {T_namespaces, T_tags},
     payload : {None, EmptyMap, ("ownerName" :> Minimal.owner_name)},
     as_json : BOOLEAN,
     reply : TransportReplies]

ClientPut ==
    /\ ncalls = 0 /\ client.kind = "query"
    /\ \E a \in TransportInputs :
          Do("_put", a, MC_put(client, Url(client, a.path, <<>>), a.payload,
                               a.as_json, a.reply))
ClientPost ==
    /\ ncalls = 0 /\ client.kind = "query"
    /\ \E a \in TransportInputs :
          Do("_post", a, MC_post(client, Url(client, a.path, <<>>), a.payload,
                                 a.as_json, a.reply))
ClientGet ==
    /\ ncalls = 0 /\ client.kind = "query"
    /\ \E a \in TransportInputs :
          Do("_get", a, MC_get(client, Url(client, a.path, <<>>), a.payload,
                               a.as_json, a.reply))
BackendPut ==
    /\ ncalls = 0 /\ client.kind = "backend"
    /\ \E a \in {t \in TransportInputs : t.as_json} :
          Do("put", a, HB_put(client, WO_API_PATH \o a.path, HEADERS,
                              a.payload, a.reply))
BackendPost ==
    /\ ncalls = 0 /\ client.kind = "backend"
    /\ \E a \in {t \in TransportInputs : t.as_json} :
          Do("post", a, HB_post(client, WO_API_PATH \o a.path, HEADERS,
                                a.payload, a.reply))

Next ==
    \/ CreateNamespace
    \/ CreateSource
    \/ CreateDataset
    \/ CreateJob
    \/ CreateJobRun
    \/ TagDataset
    \/ TagDatasetField
    \/ MarkStarted
    \/ MarkCompleted
    \/ MarkFailed
    \/ MarkAborted
    \/ GetNamespace
    \/ GetDataset
    \/ ListDatasets
    \/ GetJob
    \/ ListJobs
    \/ ListJobRuns
    \/ BuildUrl
    \/ ClientPut
    \/ ClientPost
    \/ ClientGet
    \/ BackendPut
    \/ BackendPost

Spec == Init /\ [][Next]_vars

----------------------------------------------------------------------------
(* The vocabulary of the properties.                                       *)

CreateOps ==
    {"create_namespace", "create_source", "create_dataset", "create_job",
     "create_job_run"}
MarkOps ==
    {"mark_job_run_as_started", "mark_job_run_as_completed",
     "mark_job_run_as_failed", "mark_job_run_as_aborted"}
NameArgs ==
    {"namespace_name", "owner_name", "source_name", "dataset_name", "job_name"}

\* what the last call handed to its transport: the records given to the
\* sink (write-only) or the calls of `requests` (query-capable)
Dispatched == IF client.kind = "wo" THEN last.sink ELSE last.sent
PathOf(r) == IF client.kind = "wo" THEN r.path ELSE r.url
NothingDispatched == last.sent = <<>> /\ last.sink = <<>>
ValidationError == last.err.exc = "ValueError"

\* the length limit the specification gives the name f
LimitOf(kind, f) ==
    IF kind = "query" THEN 1024
    ELSE IF f \in {"namespace_name", "owner_name", "source_name"} THEN 64
    ELSE 255
NonEmptyStr(v) == v.py = "str" /\ v.chars # <<>>
WithinLimit(f) ==
    NonEmptyStr(last.args[f]) /\ PyLen(last.args[f]) <= LimitOf(client.kind, f)
\* every argument of the last call but f has a value of the valid baseline
OthersValid(f) ==
    \E b \in Baselines :
        \A g \in DOMAIN last.args \ {f} : last.args[g] = b[g]

----------------------------------------------------------------------------
\* C1: every create operation of either client rejects a name argument that
\* is empty or longer than its limit (write-only 64 / 255, query-capable
\* 1024) with a validation error and without any transport call, and
\* accepts a name whose length is exactly the limit.
C1_NamesAreBounded ==
    last.op \in CreateOps =>
        \A f \in NameArgs \cap DOMAIN last.args :
            /\ ~WithinLimit(f) => ValidationError /\ NothingDispatched
            /\ (NonEmptyStr(last.args[f])
                    /\ PyLen(last.args[f]) = LimitOf(client.kind, f)
                    /\ OthersValid(f))
                 => ~ValidationError

\* C2: the write-only create_job_run, given valid names and a non-empty
\* run_id that is no UUID, raises the invalid-UUID error before it records
\* any request, whatever mark_as_running is.
C2_RunIdIsCheckedFirst ==
    (/\ client.kind = "wo"
     /\ last.op = "create_job_run"
     /\ WithinLimit("namespace_name")
     /\ WithinLimit("job_name")
     /\ NonEmptyStr(last.args.run_id)
     /\ ~UuidParses(last.args.run_id.chars))
    => /\ ValidationError
       /\ last.err.var = "run_id"
       /\ NothingDispatched

----------------------------------------------------------------------------
(* create_job_run with mark_as_running.                                    *)

MarkedAsRunning ==
    /\ last.op = "create_job_run"
    /\ Truthy(last.args.mark_as_running)
    /\ WithinLimit("namespace_name")
    /\ WithinLimit("job_name")
    /\ client.kind = "wo" =>
          NonEmptyStr(last.args.run_id) /\ UuidParses(last.args.run_id.chars)

\* the creation response carries a run id
HasRunId(reply) ==
    /\ reply # NoResponse
    /\ reply.json.py = "dict"
    /\ "runId" \in DOMAIN reply.json.map
    /\ NonEmptyStr(reply.json.map["runId"])

\* the run id of the created run: the caller's (write-only) or the one of
\* the creation response (query-capable)
CreatedRunId ==
    IF client.kind = "wo" THEN last.args.run_id
    ELSE last.args.reply.json.map["runId"]

IsCreation(r) ==
    /\ r.method = "POST"
    /\ PathOf(r) =
          IF client.kind = "wo"
          THEN Url(client, T_runs_external,
                   <<last.args.namespace_name, last.args.job_name,
                     last.args.run_id>>)
          ELSE Url(client, T_runs,
                   <<last.args.namespace_name, last.args.job_name>>)

IsStartOf(r, run_id) ==
    /\ r.method = "POST"
    /\ PathOf(r) = client.api_base \o <<"/", "jobs", "/", "runs", "/">>
                   \o Quote(run_id.chars, {}) \o <<"/", "s", "t", "a", "r", "t">>
    /\ r.payload = EmptyMap

CreationSucceeds ==
    \/ client.kind = "wo"
    \/ /\ client.kind = "query"
       /\ HasRunId(last.args.reply)
       /\ last.args.reply.status \in 200..299

CreationFails ==
    /\ client.kind = "query"
    /\ \/ last.args.reply = NoResponse
       \/ last.args.reply.status \in 400..599
       \/ ~HasRunId(last.args.reply)

\* C3 as claimed: create_job_run with mark_as_running = true and valid
\* inputs dispatches exactly two operations, the run-creation POST and then
\* the POST of the start transition of the same run id.
C3_AlwaysTwoDispatches ==
    MarkedAsRunning =>
        /\ Len(Dispatched) = 2
        /\ IsCreation(Dispatched[1])
        /\ IsStartOf(Dispatched[2], CreatedRunId)

\* C3, amended: the run-creation POST is dispatched first and nothing
\* before it; when it succeeds (always in the write-only client, in the
\* query-capable client a 2xx response whose JSON body has a non-empty
\* runId) exactly two operations are dispatched, the second the POST of the
\* start transition of that run id; when it fails (no response, a 4xx/5xx
\* status, a body without runId) only the creation is dispatched; a start
\* request is only ever the second one and carries the created run's id.
C3_StartFollowsCreatedRun ==
    MarkedAsRunning =>
        /\ Len(Dispatched) \in {1, 2}
        /\ IsCreation(Dispatched[1])
        /\ CreationSucceeds => Len(Dispatched) = 2
        /\ CreationFails => Len(Dispatched) = 1
        /\ Len(Dispatched) = 2 => IsStartOf(Dispatched[2], CreatedRunId)

C3_Witness ==
    /\ MarkedAsRunning
    /\ client.kind = "query"
    /\ last.err = OK
    /\ Len(last.sent) = 2
    /\ IsStartOf(last.sent[2], Str(UUID_B))

----------------------------------------------------------------------------
(* create_dataset and the STREAM rule.                                     *)

\* every argument of the last call outside fs has a value of a valid
\* baseline call (the replies of the service are no arguments)
ValidBut(fs) ==
    \E b \in Baselines :
        \A g \in DOMAIN last.args \ (fs \cup {"reply", "reply2"}) :
            last.args[g] = b[g]

StreamWithoutSchema ==
    /\ last.op = "create_dataset"
    /\ last.args.dataset_type = DatasetType_STREAM
    /\ ~Truthy(last.args.schema_location)

\* C4: in both clients create_dataset with dataset_type STREAM and an absent
\* or empty schema_location, everything else valid, raises a validation
\* error that names schema_location and dispatches nothing; a STREAM dataset
\* with a schema_location and a dataset of another type without one are
\* never rejected for schema_location.
C4_StreamNeedsSchemaLocation ==
    last.op = "create_dataset" =>
        /\ (StreamWithoutSchema /\ ValidBut({"dataset_type", "schema_location"}))
              => /\ ValidationError
                 /\ last.err.var = "schema_location"
                 /\ NothingDispatched
        /\ ~StreamWithoutSchema => last.err.var # "schema_location"

C4_Witness ==
    /\ StreamWithoutSchema
    /\ ValidBut({"dataset_type", "schema_location"})
    /\ last.err.var = "schema_location"
    /\ NothingDispatched

----------------------------------------------------------------------------
(* The optional fields of the request bodies.                              *)

OptionalArgs ==
    {"description", "schema_location", "fields", "tags", "location",
     "input_dataset", "output_dataset", "context", "nominal_start_time",
     "nominal_end_time", "run_args"}

\* the key of the request body that carries the argument f
KeyOf(f) ==
    CASE f = "schema_location" -> "schemaLocation"
      [] f = "input_dataset" -> "inputs"
      [] f = "output_dataset" -> "outputs"
      [] f = "nominal_start_time" -> "nominalStartTime"
      [] f = "nominal_end_time" -> "nominalEndTime"
      [] f = "run_args" -> "runArgs"
      [] OTHER -> f

\* the body of the request the last create call dispatched first
Body == Dispatched[1].payload

CreateDispatched == last.op \in CreateOps /\ Dispatched # <<>>

PresentIffSupplied(f) ==
    /\ KeyOf(f) \in DOMAIN Body <=> Truthy(last.args[f])
    /\ KeyOf(f) \in DOMAIN Body => Body[KeyOf(f)] = last.args[f]

AlwaysSent == {"input_dataset", "output_dataset"}

----------------------------------------------------------------------------
(* The path builder, read back: the built url is split along its template  *)
(* and every placeholder's content is percent-decoded.                     *)

Unreserved == Letters \cup Range(Digit) \cup {"_", ".", "-", "~"}
HexValue(h) == (CHOOSE i \in 1..16 : HexUpper[i] = h) - 1
\* the bytes a percent-encoded text stands for; a malformed escape and a
\* character that should have been escaped decode to 256, which is no byte
RECURSIVE PctDecode(_)
PctDecode(s) ==
    IF s = <<>> THEN <<>>
    ELSE IF s[1] = "%"
    THEN IF Len(s) >= 3 /\ s[2] \in Range(HexUpper) /\ s[3] \in Range(HexUpper)
         THEN <<16 * HexValue(s[2]) + HexValue(s[3])>>
              \o PctDecode(SubSeq(s, 4, Len(s)))
         ELSE <<256>>
    ELSE IF s[1] \in Unreserved THEN <<Ord(s[1])>> \o PctDecode(Tail(s))
    ELSE <<256>>

\* every escape of s stands for a byte that had to be escaped
EscapesOnlyReserved(s) ==
    \A i \in 1..Len(s) :
        (s[i] = "%" /\ i + 2 <= Len(s)) =>
            \A c \in Unreserved :
                Ord(c) # 16 * HexValue(s[i + 1]) + HexValue(s[i + 2])

\* the UTF-8 bytes of a raw string
Bytes(chars) == Flatten([i \in 1..Len(chars) |-> Utf8(chars[i])])

\* how many leading characters of s can belong to an encoded argument
RunLen(s) ==
    IF \E i \in 1..Len(s) : s[i] \notin Unreserved \cup {"%"}
    THEN (CHOOSE i \in 1..Len(s) :
              /\ s[i] \notin Unreserved \cup {"%"}
              /\ \A j \in 1..(i - 1) : s[j] \in Unreserved \cup {"%"}) - 1
    ELSE Len(s)

\* the contents of the placeholders of `path` in `rest`, left to right; a
\* text that does not follow the template yields a content that is no
\* encoded argument
RECURSIVE Parse(_, _)
Parse(path, rest) ==
    IF path = <<>> THEN IF rest = <<>> THEN <<>> ELSE <<rest>>
    ELSE IF IsSlot(path[1])
    THEN <<SubSeq(rest, 1, RunLen(rest))>>
         \o Parse(Tail(path), SubSeq(rest, RunLen(rest) + 1, Len(rest)))
    ELSE IF rest # <<>> /\ rest[1] = path[1] THEN Parse(Tail(path), Tail(rest))
    ELSE <<<<"/">>>>

HasPrefix(s, p) == Len(s) >= Len(p) /\ SubSeq(s, 1, Len(p)) = p

UrlCall == last.op = "_url"
Built == last.ret.chars
Filled ==
    Parse(last.args.path, SubSeq(Built, Len(client.api_base) + 1, Len(Built)))

\* the i-th placeholder holds the i-th argument, percent-encoded once with
\* nothing but the unreserved characters left as they are
ArgumentsEncodedInOrder ==
    /\ HasPrefix(Built, client.api_base)
    /\ Len(Filled) = Len(last.args.args)
    /\ \A i \in 1..Len(Filled) :
          /\ PctDecode(Filled[i]) = Bytes(last.args.args[i].chars)
          /\ EscapesOnlyReserved(Filled[i])

ExampleEncoded ==
    (last.args.path = T_namespace /\ last.args.args = <<Str(SLASHED)>>)
        => Built = client.api_base \o <<"/", "namespaces", "/">>
                   \o <<"a", "%", "2", "F", "b", "%", "2", "0", "c">>

\* C6 as claimed: _url percent-encodes each argument exactly once with an
\* empty safe set, puts the i-th encoded argument in the i-th placeholder,
\* and the result has as many "/" as the template.
C6_SlashesOfTemplateOnly ==
    UrlCall =>
        /\ ArgumentsEncodedInOrder
        /\ ExampleEncoded
        /\ Count(Built, "/") = Count(last.args.path, "/")

\* C6, amended: the result of _url is the client's api base followed by the
\* filled template; each argument is percent-encoded exactly once with an
\* empty safe set (every character outside letters, digits and "_.-~" is
\* escaped, "/" and space included, so "a/b c" becomes "a%2Fb%20c"), the
\* i-th encoded argument is in the i-th placeholder, and the result has as
\* many "/" as the api base and the template have together.
C6_UrlIsBaseAndEncodedTemplate ==
    UrlCall =>
        /\ ArgumentsEncodedInOrder
        /\ ExampleEncoded
        /\ Count(Built, "/") =
              Count(client.api_base, "/") + Count(last.args.path, "/")

C6_Witness ==
    /\ UrlCall
    /\ last.args.path = T_dataset
    /\ last.args.args = <<Str(<<"n", "s", "-", "1">>), Str(SLASHED)>>
    /\ Filled = <<<<"n", "s", "-", "1">>,
                  <<"a", "%", "2", "F", "b", "%", "2", "0", "c">>>>

----------------------------------------------------------------------------
(* The lifecycle transitions.                                              *)

WellFormedUuid(v) == NonEmptyStr(v) /\ UuidParses(v.chars)

\* C7: in both clients each of mark_job_run_as_started / _completed /
\* _failed / _aborted, called with a run_id that is empty or no well-formed
\* UUID, raises a validation error and dispatches nothing.
C7_RunIdMustBeUuid ==
    (last.op \in MarkOps /\ ~WellFormedUuid(last.args.run_id))
        => ValidationError /\ NothingDispatched

\* a single lifecycle request of `action` for the run `run_id`
ActionOf(op) ==
    CASE op = "mark_job_run_as_started" -> <<"s", "t", "a", "r", "t">>
      [] op = "mark_job_run_as_completed" -> <<"c", "o", "m", "p", "l", "e", "t", "e">>
      [] op = "mark_job_run_as_failed" -> <<"f", "a", "i", "l">>
      [] op = "mark_job_run_as_aborted" -> <<"a", "b", "o", "r", "t">>

IsTransition(r, run_id, op) ==
    /\ r.method = "POST"
    /\ PathOf(r) = client.api_base \o <<"/", "jobs", "/", "runs", "/">>
                   \o run_id.chars \o <<"/">> \o ActionOf(op)
    /\ r.payload = EmptyMap

----------------------------------------------------------------------------
(* SpecSeq: up to MaxCalls lifecycle calls, in any order and with any      *)
(* repetition, on one client.                                              *)

SeqRunIds == {Str(UUID_A), Str(UUID_B), Str(NOT_UUID)}
SeqReplies == {Response(200, ResourceJson), Response(500, ResourceJson)}
SeqInputs ==
    IF client.kind = "query" THEN [run_id : SeqRunIds, reply : SeqReplies]
    ELSE [run_id : SeqRunIds]
MoreCalls == ncalls < MaxCalls /\ client \in Clients

SeqMarkStarted == MoreCalls /\ \E a \in SeqInputs : mark_job_run_as_started(a)
SeqMarkCompleted == MoreCalls /\ \E a \in SeqInputs : mark_job_run_as_completed(a)
SeqMarkFailed == MoreCalls /\ \E a \in SeqInputs : mark_job_run_as_failed(a)
SeqMarkAborted == MoreCalls /\ \E a \in SeqInputs : mark_job_run_as_aborted(a)

NextSeq ==
    \/ SeqMarkStarted
    \/ SeqMarkCompleted
    \/ SeqMarkFailed
    \/ SeqMarkAborted

SpecSeq == Init /\ [][NextSeq]_vars

\* everything the client dispatched since it was constructed
History == IF client.kind = "wo" THEN sink ELSE sent

\* C8: the clients keep no run-lifecycle state: whatever was issued before,
\* every lifecycle call with a well-formed UUID dispatches exactly one POST
\* to /jobs/runs/{runId}/{action} with an empty body, action being start /
\* complete / fail / abort for the four operations, and none is rejected
\* with a validation error.
C8_NoLifecycleState ==
    [][(last'.op \in MarkOps /\ WellFormedUuid(last'.args.run_id)) =>
          /\ last'.err.exc # "ValueError"
          /\ Len(History') = Len(History) + 1
          /\ SubSeq(History', 1, Len(History)) = History
          /\ IsTransition(History'[Len(History')], last'.args.run_id, last'.op)
      ]_vars

\* a run that was completed and then started
C8_Witness ==
    /\ ncalls >= 2
    /\ Len(History) >= 2
    /\ \E i \in 1..Len(History) : \E j \in (i + 1)..Len(History) :
          /\ IsTransition(History[i], Str(UUID_A), "mark_job_run_as_completed")
          /\ IsTransition(History[j], Str(UUID_A), "mark_job_run_as_started")
    /\ last.op = "mark_job_run_as_started"
    /\ last.err = OK

----------------------------------------------------------------------------
(* The synchronous transport.                                              *)

TransportOps == {"_put", "_post", "_get", "put", "post"}

\* the body of the response as the call was asked to decode it
Decoded ==
    IF last.op \in {"put", "post"} \/ last.args.as_json
    THEN last.args.reply.json
    ELSE last.args.reply.text

\* C9: in the synchronous transport (HttpBackend.put / post and
\* MarquezClient._put / _post / _get) a response with a status outside
\* 200..299 makes the call raise APIError and return nothing, and a
\* response with a status inside 200..299 (and a body that decodes) makes it
\* return the decoded body and raise nothing.
C9_Non2xxRaisesApiError ==
    (last.op \in TransportOps /\ last.args.reply # NoResponse) =>
        IF last.args.reply.status \in 200..299
        THEN Decoded # InvalidJson => last.err = OK /\ last.ret = Decoded
        ELSE last.err = APIError /\ last.ret = None

----------------------------------------------------------------------------
(* The write-only client.                                                  *)

ClientOps ==
    CreateOps \cup MarkOps \cup {"tag_dataset", "tag_dataset_field"}

\* a record of the sink holds a method, the built path, the headers and
\* the payload of one request
IsRecord(r) ==
    /\ DOMAIN r = {"method", "path", "headers", "payload"}
    /\ r.method \in {"PUT", "POST"}
    /\ HasPrefix(r.path, client.api_base)
    /\ r.headers = HEADERS

\* C10: a write-only operation makes no network call; when it passes
\* validation it gives the sink one record per request, each with the
\* method, the built path, the headers and the payload, and returns None;
\* when it fails validation it gives the sink no record.
C10_WriteOnlyRecordsOnly ==
    (client.kind = "wo" /\ last.op \in ClientOps) =>
        /\ last.sent = <<>>
        /\ ValidationError => last.sink = <<>>
        /\ ~ValidationError =>
              /\ last.err = OK
              /\ last.ret = None
              /\ last.sink # <<>>
              /\ \A i \in 1..Len(last.sink) : IsRecord(last.sink[i])

----------------------------------------------------------------------------
(* Tag attachment.                                                         *)

TagOps == {"tag_dataset", "tag_dataset_field"}

\* the path the last tag call is to POST to
TagPath ==
    IF last.op = "tag_dataset"
    THEN client.api_base
         \o <<"/", "namespaces", "/">> \o Quote(last.args.namespace_name.chars, {})
         \o <<"/", "datasets", "/">> \o Quote(last.args.dataset_name.chars, {})
         \o <<"/", "tags", "/">> \o Quote(last.args.tag_name.chars, {})
    ELSE client.api_base
         \o <<"/", "namespaces", "/">> \o Quote(last.args.namespace_name.chars, {})
         \o <<"/", "datasets", "/">> \o Quote(last.args.dataset_name.chars, {})
         \o <<"/", "fields", "/">> \o Quote(last.args.field_name.chars, {})
         \o <<"/", "tags", "/">> \o Quote(last.args.tag_name.chars, {})

ValidTagCall ==
    /\ last.op \in TagOps
    /\ \A f \in DOMAIN last.args : WithinLimit(f)

\* C11: in both clients tag_dataset and tag_dataset_field, called with
\* non-empty names within the length limits, complete without error and
\* dispatch exactly one POST without a body to
\* /namespaces/{ns}/datasets/{ds}/tags/{tag}, respectively
\* /namespaces/{ns}/datasets/{ds}/fields/{field}/tags/{tag}.
C11_TagOpsDispatchOnePost ==
    ValidTagCall =>
        /\ last.err = OK
        /\ Len(Dispatched) = 1
        /\ Dispatched[1].method = "POST"
        /\ PathOf(Dispatched[1]) = TagPath
        /\ ~Truthy(Dispatched[1].payload)

----------------------------------------------------------------------------
(* Creation of the named resources.                                        *)

NamedCreateOps ==
    {"create_namespace", "create_source", "create_dataset", "create_job"}

Has(f) == f \in DOMAIN last.args

\* the inputs the specification calls valid for a named resource
ValidNamedCreate ==
    /\ last.op \in NamedCreateOps
    /\ \A f \in NameArgs \cap DOMAIN last.args : WithinLimit(f)
    /\ Has("physical_name") =>
          NonEmptyStr(last.args.physical_name) /\ PyLen(last.args.physical_name) <= 255
    /\ Has("connection_url") => NonEmptyStr(last.args.connection_url)
    /\ Has("source_type") => last.args.source_type \in SourceType
    /\ Has("job_type") => last.args.job_type \in JobType
    /\ Has("dataset_type") =>
          /\ last.args.dataset_type \in DatasetType
          /\ last.args.dataset_type = DatasetType_STREAM
                => Truthy(last.args.schema_location)
          /\ client.kind = "wo" => Truthy(last.args.run_id)

Encoded(f) == Quote(last.args[f].chars, {})

\* the path of the resource the last call names
ResourcePath ==
    client.api_base \o
    CASE last.op = "create_namespace" ->
            <<"/", "namespaces", "/">> \o Encoded("namespace_name")
      [] last.op = "create_source" ->
            <<"/", "sources", "/">> \o Encoded("source_name")
      [] last.op = "create_dataset" ->
            <<"/", "namespaces", "/">> \o Encoded("namespace_name")
            \o <<"/", "datasets", "/">> \o Encoded("dataset_name")
      [] last.op = "create_job" ->
            <<"/", "namespaces", "/">> \o Encoded("namespace_name")
            \o <<"/", "jobs", "/">> \o Encoded("job_name")

\* C12: every create operation of a named resource, given valid inputs,
\* dispatches exactly one request, a PUT to the resource's template filled
\* with the encoded names; create_namespace(n, o) without a description
\* dispatches PUT /namespaces/<n> with the body {ownerName: o} and nothing
\* else in it.
C12_NamedResourcesArePut ==
    ValidNamedCreate =>
        /\ Len(Dispatched) = 1
        /\ Dispatched[1].method = "PUT"
        /\ PathOf(Dispatched[1]) = ResourcePath
        /\ (last.op = "create_namespace" /\ ~Truthy(last.args.description))
              => /\ DOMAIN Dispatched[1].payload = {"ownerName"}
                 /\ Dispatched[1].payload["ownerName"] = last.args.owner_name

C12_Witness ==
    /\ ValidNamedCreate
    /\ last.op = "create_namespace"
    /\ last.args.namespace_name = Str(<<"n", "s", "1">>)
    /\ last.args.owner_name = Str(<<"o", "w", "n", "e", "r", "1">>)
    /\ last.args.description = None
    /\ Len(Dispatched) = 1
    /\ Dispatched[1].method = "PUT"
    /\ PathOf(Dispatched[1]) =
          client.api_base \o <<"/", "namespaces", "/", "n", "s", "1">>
    /\ DOMAIN Dispatched[1].payload = {"ownerName"}

----------------------------------------------------------------------------
(* No retries.                                                             *)

\* the service's answer makes the transport call fail
Failed(reply) == reply = NoResponse \/ reply.status \in 400..599
ErrorOf(reply) == IF reply = NoResponse THEN ConnectionError ELSE APIError

NoDuplicates(s) == \A i \in 1..Len(s) : \A j \in (i + 1)..Len(s) : s[i] # s[j]

\* C13: no operation retries: every request of one operation reaches the
\* transport at most once, and once a transport call has failed (APIError,
\* or no response) the operation ends with that error without a further
\* transport call; the query-capable create_job_run with mark_as_running
\* never dispatches the start transition after a failed run creation.
C13_NoRetries ==
    /\ NoDuplicates(last.sent)
    /\ NoDuplicates(last.sink)
    /\ Len(last.sent) <= 2
    /\ Len(last.sink) <= 2
    /\ last.sent # <<>> =>
          /\ Failed(last.args.reply) =>
                last.err = ErrorOf(last.args.reply) /\ Len(last.sent) = 1
          /\ Len(last.sent) = 2 =>
                /\ last.op = "create_job_run"
                /\ Truthy(last.args.mark_as_running)
                /\ ~Failed(last.args.reply)
                /\ Failed(last.args.reply2) => last.err = ErrorOf(last.args.reply2)

C13_Witness ==
    /\ client.kind = "query"
    /\ last.op = "create_job_run"
    /\ Truthy(last.args.mark_as_running)
    /\ last.args.reply.status = 500
    /\ last.err = APIError
    /\ Len(last.sent) = 1
    /\ last.sent[1].url = Url(client, T_runs, <<last.args.namespace_name,
                                               last.args.job_name>>)

----------------------------------------------------------------------------
(* One operation of a client by name; `a` holds its arguments and, for the *)
(* query-capable client, what the service answers.                         *)

Invoke(c, op, a) ==
    IF c.kind = "wo"
    THEN CASE op = "create_namespace" ->
                WO_create_namespace(c, a.namespace_name, a.owner_name, a.description)
           [] op = "create_source" ->
                WO_create_source(c, a.source_name, a.source_type, a.connection_url, a.description)
           [] op = "create_dataset" ->
                WO_create_dataset(c, a.namespace_name, a.dataset_name, a.dataset_type, a.physical_name, a.source_name, a.run_id, a.description, a.schema_location, a.fields, a.tags)
           [] op = "create_job" ->
                WO_create_job(c, a.namespace_name, a.job_name, a.job_type, a.location, a.input_dataset, a.output_dataset, a.description, a.context)
           [] op = "create_job_run" ->
                WO_create_job_run(c, a.namespace_name, a.job_name, a.run_id, a.nominal_start_time, a.nominal_end_time, a.run_args, a.mark_as_running)
           [] op = "tag_dataset" ->
                WO_tag_dataset(c, a.namespace_name, a.dataset_name, a.tag_name)
           [] op = "tag_dataset_field" ->
                WO_tag_dataset_field(c, a.namespace_name, a.dataset_name, a.field_name, a.tag_name)
           [] op = "mark_job_run_as_started" -> WO_mark_job_run_as_started(c, a.run_id)
           [] op = "mark_job_run_as_completed" -> WO_mark_job_run_as_completed(c, a.run_id)
           [] op = "mark_job_run_as_failed" -> WO_mark_job_run_as_failed(c, a.run_id)
           [] op = "mark_job_run_as_aborted" -> WO_mark_job_run_as_aborted(c, a.run_id)
    ELSE CASE op = "create_namespace" ->
                MC_create_namespace(c, a.namespace_name, a.owner_name, a.description, a.reply)
           [] op = "create_source" ->
                MC_create_source(c, a.source_name, a.source_type, a.connection_url, a.description, a.reply)
           [] op = "create_dataset" ->
                MC_create_dataset(c, a.namespace_name, a.dataset_name, a.dataset_type, a.physical_name, a.source_name, a.description, a.run_id, a.schema_location, a.fields, a.tags, a.reply)
           [] op = "create_job" ->
                MC_create_job(c, a.namespace_name, a.job_name, a.job_type, a.location, a.input_dataset, a.output_dataset, a.description, a.context, a.reply)
           [] op = "create_job_run" ->
                MC_create_job_run(c, a.namespace_name, a.job_name, a.nominal_start_time, a.nominal_end_time, a.run_args, a.mark_as_running, a.reply, a.reply2)
           [] op = "tag_dataset" ->
                MC_tag_dataset(c, a.namespace_name, a.dataset_name, a.tag_name)
           [] op = "tag_dataset_field" ->
                MC_tag_dataset_field(c, a.namespace_name, a.dataset_name, a.field_name, a.tag_name)
           [] op = "mark_job_run_as_started" -> MC_mark_job_run_as_started(c, a.run_id, a.reply)
           [] op = "mark_job_run_as_completed" -> MC_mark_job_run_as_completed(c, a.run_id, a.reply)
           [] op = "mark_job_run_as_failed" -> MC_mark_job_run_as_failed(c, a.run_id, a.reply)
           [] op = "mark_job_run_as_aborted" -> MC_mark_job_run_as_aborted(c, a.run_id, a.reply)

\* the requests an operation hands over, in order
Requests(c, op, a) ==
    IF c.kind = "wo" THEN Invoke(c, op, a).sink ELSE Invoke(c, op, a).sent

\* a client that keeps the namespace of its last call as its default
ClientAfterRemembering(c, op, a) ==
    IF "namespace_name" \in DOMAIN a /\ Truthy(a.namespace_name)
    THEN [c EXCEPT !.namespace_name = a.namespace_name]
    ELSE c

\* the client object after a step of one of its operations: no operation
\* assigns an attribute of self
ClientAfter(c, op, a) == c

----------------------------------------------------------------------------
(* SpecConc: NumCallers callers share one client.  A caller enters an      *)
(* operation, hands its requests over one at a time, each built from the   *)
(* configuration the client has at that moment, and returns; the steps of  *)
(* different callers interleave freely.                                    *)

ConcOps == {"create_namespace", "create_job_run", "mark_job_run_as_completed"}
ConcArgs ==
    {Minimal, Full,
     [Full EXCEPT !.reply = Response(500, ResourceJson)],
     [Full EXCEPT !.run_id = Str(UUID_B), !.namespace_name = Str(SLASHED)]}

ConcEnter(k) ==
    /\ client \in Clients
    /\ inflight[k].pc = "idle"
    /\ \E op \in ConcOps : \E a \in ConcArgs :
          /\ inflight' = [inflight EXCEPT
                             ![k] = [pc |-> "running", op |-> op, args |-> a,
                                     out |-> <<>>]]
          /\ client' = ClientAfter(client, op, a)
    /\ ncalls' = ncalls + 1
    /\ UNCHANGED <<sent, sink, last>>

\* Caller k hands the n-th request of its call over to the transport: the
\* requests.put / requests.post line of the running method.
Handover(k, call, plan, n) ==
    /\ call.pc = "running"
    /\ n <= Len(plan)
    /\ inflight' = [inflight EXCEPT ![k].out = Append(call.out, plan[n])]
    /\ IF client.kind = "wo"
       THEN sink' = Append(sink, plan[n]) /\ sent' = sent
       ELSE sent' = Append(sent, plan[n]) /\ sink' = sink
    /\ client' = ClientAfter(client, call.op, call.args)
    /\ UNCHANGED <<last, ncalls>>

ConcDispatch(k) ==
    Handover(k, inflight[k], Requests(client, inflight[k].op, inflight[k].args), Len(inflight[k].out) + 1)

ConcReturn(k) ==
    LET call == inflight[k]
    IN  /\ call.pc = "running"
        /\ Len(call.out) >= Len(Requests(client, call.op, call.args))
        /\ inflight' = [inflight EXCEPT ![k].pc = "done"]
        /\ client' = ClientAfter(client, call.op, call.args)
        /\ UNCHANGED <<sent, sink, last, ncalls>>

Enter == \E k \in Callers : ConcEnter(k)
Dispatch == \E k \in Callers : ConcDispatch(k)
Return == \E k \in Callers : ConcReturn(k)

NextConc ==
    \/ Enter
    \/ Dispatch
    \/ Return

SpecConc == Init /\ [][NextConc]_vars

\* the client as it was constructed
Constructed == IF client.kind = "wo" THEN TheClientWO
               ELSE IF client.kind = "query" THEN TheClient ELSE TheBackend

\* what the call of caller k dispatches when it runs alone
Alone(k) == Requests(Constructed, inflight[k].op, inflight[k].args)

IsPrefix(p, s) == Len(p) <= Len(s) /\ SubSeq(s, 1, Len(p)) = p

RECURSIVE TotalOut(_)
TotalOut(k) == IF k = 0 THEN 0 ELSE Len(inflight[k].out) + TotalOut(k - 1)

----------------------------------------------------------------------------
(* SpecDag: tests/test_airflow_dag.py, the loop of test_create_dag on a    *)
(* write-only client.  Caller 1 is the test; its frame keeps the locals of *)
(* the running iteration.  The test's own branch condition                 *)
(* (udiff >= -1 or udiff <= 1) holds for every integer; the model lets the *)
(* iteration end with either transition.                                   *)

DagOps ==
    <<"create_namespace", "create_source", "create_dataset", "create_job",
      "create_job_run", "mark_job_run_as_started", "mark_job_run_as_failed">>
DagLen == Len(DagOps)
DagRunIds == {Str(UUID_A), Str(UUID_B), Str(UUID_PLAIN)}

\* the run ids earlier iterations were given
UsedRunIds ==
    {sink[j].payload["runId"] :
        j \in {j \in 1..Len(sink) : "runId" \in DOMAIN sink[j].payload}}

\* NAMESPACE, OWNER, SOURCE, DATASET, PHYSICAL, JOB and run_id of iteration i
DagLocals(i, run_id) ==
    [Minimal EXCEPT
        !.namespace_name = Str(<<"m", "y", "-", "n", "s">>),
        !.owner_name = Str(<<"m", "e">>),
        !.source_name = Str(<<"m", "y", "-", "s", "r", "c">>),
        !.dataset_name = Str(<<"m", "y", "-", "d", "s", "-", Digit[i + 1]>>),
        !.physical_name = Str(<<"p", ".", "t", "-", Digit[i + 1]>>),
        !.job_name = Str(<<"m", "y", "-", "j", "o", "b", "-", Digit[(i % 10) + 1]>>),
        !.run_id = run_id]

\* the iteration and the position in it that the next call has
DagIter == ncalls \div DagLen
DagPos == (ncalls % DagLen) + 1

\* one call of the loop body made with the locals a
DagCall(op, a, r) ==
    /\ ncalls' = ncalls + 1
    /\ sent' = sent \o r.sent
    /\ sink' = sink \o r.sink
    /\ last' = [op |-> op, args |-> a, err |-> r.err, ret |-> r.ret,
                sent |-> r.sent, sink |-> r.sink]
    /\ inflight' = [inflight EXCEPT ![1] = [pc |-> "running",
                                            op |-> "test_create_dag",
                                            args |-> a, out |-> <<>>]]
    /\ UNCHANGED client

\* a call raised nothing so far, so the test goes on
DagAt(pos) ==
    /\ client = TheClientWO
    /\ last.err = OK
    /\ DagPos = pos
    /\ DagIter < MaxReps

DagCreateNamespace ==
    /\ DagAt(1)
    /\ \E run_id \in DagRunIds \ UsedRunIds :
          DagCall("create_namespace", DagLocals(DagIter, run_id),
                  Invoke(client, "create_namespace", DagLocals(DagIter, run_id)))

DagStep(pos, op) ==
    /\ DagAt(pos)
    /\ DagCall(op, inflight[1].args, Invoke(client, op, inflight[1].args))

DagCreateSource == DagStep(2, "create_source")
DagCreateDataset == DagStep(3, "create_dataset")
DagCreateJob == DagStep(4, "create_job")
DagCreateJobRun == DagStep(5, "create_job_run")
DagMarkStarted == DagStep(6, "mark_job_run_as_started")
DagMarkFailed == DagStep(7, "mark_job_run_as_failed")
DagMarkCompleted == DagStep(7, "mark_job_run_as_completed")

NextDag ==
    \/ DagCreateNamespace
    \/ DagCreateSource
    \/ DagCreateDataset
    \/ DagCreateJob
    \/ DagCreateJobRun
    \/ DagMarkStarted
    \/ DagMarkFailed
    \/ DagMarkCompleted

SpecDag == Init /\ [][NextDag]_vars

\* the method and the URL the j-th call of the loop is to record
DagMethods == <<"PUT", "PUT", "PUT", "PUT", "POST", "POST", "POST">>
DagUrl(pos, a, op) ==
    LET base == client.api_base \o <<"/">>
        ns == <<"namespaces", "/">> \o a.namespace_name.chars
        run == <<"jobs", "/", "runs", "/">> \o a.run_id.chars \o <<"/">>
    IN  CASE pos = 1 -> base \o ns
          [] pos = 2 -> base \o <<"sources", "/">> \o a.source_name.chars
          [] pos = 3 -> base \o ns \o <<"/", "datasets", "/">> \o a.dataset_name.chars
          [] pos = 4 -> base \o ns \o <<"/", "jobs", "/">> \o a.job_name.chars
          [] pos = 5 -> base \o ns \o <<"/", "jobs", "/">> \o a.job_name.chars
                        \o <<"/", "runs", "?", "external_id", "=">> \o a.run_id.chars
          [] pos = 6 -> base \o run \o ActionOf("mark_job_run_as_started")
          [] pos = 7 -> base \o run \o ActionOf(op)

\* C15: however often the write-only client is taken through
\* create_namespace, create_source, create_dataset (DB_TABLE, with the run
\* id), create_job (BATCH), create_job_run (same run id),
\* mark_job_run_as_started and then mark_job_run_as_failed or
\* mark_job_run_as_completed, with valid names and a fresh well-formed UUID
\* each time, no call raises and the log holds exactly one record per call
\* in call order: PUT, PUT, PUT, PUT, POST, POST, POST per repetition.
C15_DagRecordsOnePerCall ==
    [][client = TheClientWO =>
          /\ last'.err = OK
          /\ sent' = <<>>
          /\ Len(sink') = ncalls'
          /\ SubSeq(sink', 1, Len(sink)) = sink
          /\ LET rec == sink'[Len(sink')]
                 a == last'.args
             IN  /\ last'.sink = <<rec>>
                 /\ rec.method = DagMethods[DagPos]
                 /\ rec.path = DagUrl(DagPos, a, last'.op)
                 /\ last'.op \in IF DagPos = DagLen
                                 THEN {"mark_job_run_as_failed",
                                       "mark_job_run_as_completed"}
                                 ELSE {DagOps[DagPos]}
      ]_vars

\* the second repetition ended, one with a failed and one with a completed
\* run, each under its own run id
C15_Witness ==
    /\ client = TheClientWO
    /\ ncalls = 2 * DagLen
    /\ Len(sink) = 2 * DagLen
    /\ [j \in 1..DagLen |-> sink[j].method] = DagMethods
    /\ [j \in 1..DagLen |-> sink[DagLen + j].method] = DagMethods
    /\ sink[DagLen].path = DagUrl(DagLen, DagLocals(0, Str(UUID_A)), "mark_job_run_as_failed")
    /\ sink[2 * DagLen].path =
           DagUrl(DagLen, DagLocals(1, Str(UUID_B)), "mark_job_run_as_completed")
    /\ last.err = OK

----------------------------------------------------------------------------
(* The two personalities side by side.                                     *)

\* the arguments of the last call, with a 2xx answer for the service
Answered ==
    [f \in DOMAIN last.args \cup {"reply", "reply2"} |->
        IF f \in {"reply", "reply2"} THEN Response(200, ResourceJson)
        ELSE last.args[f]]

\* method, path after the API prefix and body of every request of a call
Shape(c, op, a) ==
    LET rs == Requests(c, op, a)
        url(r) == IF c.kind = "wo" THEN r.path ELSE r.url
    IN  [i \in 1..Len(rs) |->
            [method |-> rs[i].method,
             path |-> SubSeq(url(rs[i]), Len(c.api_base) + 1, Len(url(rs[i]))),
             body |-> rs[i].payload]]

AcceptedByBoth(op, a) ==
    /\ Invoke(TheClientWO, op, a).err = OK
    /\ Invoke(TheClient, op, a).err = OK

\* C16: for every operation both personalities offer and every input both
\* accept, the write-only client records the same HTTP method, the same
\* resource path after the API prefix and the same body as the
\* query-capable client sends.
C16_SameRequest ==
    (last.op \in ClientOps /\ AcceptedByBoth(last.op, Answered)) =>
        Shape(TheClientWO, last.op, Answered) = Shape(TheClient, last.op, Answered)

----------------------------------------------------------------------------
(* Headers.                                                                *)

\* 'marquez-python/' followed by the VERSION of version.py
ExpectedUserAgent == Str(<<"marquez-python", "/", "VERSION">>)

CarriesUserAgent(r) ==
    /\ "User-Agent" \in DOMAIN r.headers
    /\ r.headers["User-Agent"] = ExpectedUserAgent

----------------------------------------------------------------------------
(* utils.make_field.  The closed field-type enumeration is                *)
(* models.DatasetFieldType; a member is the pair of class and name, as     *)
(* for the other enumerations.                                             *)

DatasetFieldTypeNames == {"INTEGER", "VARCHAR", "BOOLEAN"}
DatasetFieldType == {Enum("DatasetFieldType", n) : n \in DatasetFieldTypeNames}

\* a membership test that also takes the names of DatasetType
IsMemberNameOfEither(data_type) ==
    \E n \in DatasetFieldTypeNames \cup {"DB_TABLE", "STREAM"} :
        data_type.chars = <<n>>

\* DatasetFieldType.__members__.__contains__(data_type) for a str
IsMemberName(data_type) ==
    \E n \in DatasetFieldTypeNames : data_type.chars = <<n>>

make_field(name, data_type, description) ==
    IF data_type.py = "str" /\ ~IsMemberName(data_type)
    THEN Raise(ValueError("data_type", "Invalid field type"))
    ELSE IF data_type.py # "str" /\ ~IsInstance(data_type, "DatasetFieldType")
    THEN Raise(ValueError("data_type", "must be a str or a DatasetFieldType"))
    ELSE [Raise(OK) EXCEPT !.ret =
            Dict(("name" :> name) @@
                 ("type" :> IF data_type.py = "str" THEN data_type
                            ELSE EnumName(data_type)) @@
                 Opt("description", description))]

\* SpecField: one call of make_field
FieldNames == {None, Str(<<>>), Str(<<"f">>), Name(3)}
FieldTypes ==
    {Str(<<n>>) : n \in DatasetFieldTypeNames}
    \cup {Str(<<>>), Str(<<"integer">>), Str(<<"DB_TABLE">>)}
    \cup DatasetFieldType
    \cup {None, Enum("DatasetType", "DB_TABLE"), List(<<Str(<<"INTEGER">>)>>)}
FieldDescriptions == {None, Str(<<>>), Str(<<"x", "y">>)}
FieldInputs ==
    [name : FieldNames, data_type : FieldTypes, description : FieldDescriptions]

MakeField ==
    /\ ncalls = 0
    /\ \E a \in FieldInputs :
          Do("make_field", a, make_field(a.name, a.data_type, a.description))

NextField == MakeField

SpecField == Init /\ [][NextField]_vars

\* C18: make_field with a string data_type succeeds exactly when the
\* string names a member of the field-type enumeration, and then 'type' is
\* that string; with a member of the enumeration 'type' is the member's
\* name; with anything else it fails with an error.  A result has 'name'
\* equal to the given name, and the key 'description', with the given
\* value, exactly when a non-empty description was given.
C18_MakeField ==
    last.op = "make_field" =>
        LET a == last.args
            names == {"INTEGER", "VARCHAR", "BOOLEAN"}
            member == a.data_type.py = "enum" /\ a.data_type.cls = "DatasetFieldType"
                      /\ a.data_type.name \in names
            named == a.data_type.py = "str" /\ \E n \in names : a.data_type.chars = <<n>>
        IN  /\ last.err = OK <=> (named \/ member)
            /\ last.err # OK => last.err.exc = "ValueError" /\ last.ret = None
            /\ last.sent = <<>> /\ last.sink = <<>>
            /\ last.err = OK =>
                  /\ last.ret.py = "dict"
                  /\ last.ret.map["name"] = a.name
                  /\ named => last.ret.map["type"] = a.data_type
                  /\ member => last.ret.map["type"] = Str(<<a.data_type.name>>)
                  /\ "description" \in DOMAIN last.ret.map <=>
                        (a.description.py = "str" /\ a.description.chars # <<>>)
                  /\ "description" \in DOMAIN last.ret.map =>
                        last.ret.map["description"] = a.description
                  /\ DOMAIN last.ret.map \subseteq {"name", "type", "description"}

\* a member of the enumeration was given without a description
C18_Witness ==
    /\ last.op = "make_field"
    /\ last.args.data_type = Enum("DatasetFieldType", "VARCHAR")
    /\ last.args.description = Str(<<>>)
    /\ last.err = OK
    /\ last.ret = Dict(("name" :> Str(<<"f">>)) @@ ("type" :> Str(<<"VARCHAR">>)))

----------------------------------------------------------------------------
(* The namespace name in the query-capable client.                         *)

NamespaceOps ==
    {"create_namespace", "get_namespace", "create_dataset", "get_dataset",
     "list_datasets", "tag_dataset", "tag_dataset_field", "create_job",
     "get_job", "list_jobs", "create_job_run", "list_job_runs"}

\* the namespace_name of the last call is missing, empty or over the limit
BadNamespace ==
    \/ ~NonEmptyStr(last.args.namespace_name)
    \/ PyLen(last.args.namespace_name) > 1024

\* C19: every operation of the query-capable client that takes a
\* namespace_name (create_namespace, get_namespace, create_dataset,
\* get_dataset, list_datasets, tag_dataset, tag_dataset_field, create_job,
\* get_job, list_jobs, create_job_run, list_job_runs) rejects an empty
\* namespace_name, and one longer than 1024 characters, with a validation
\* error before any transport call is made.
C19_NamespaceIsChecked ==
    (client.kind = "query" /\ last.op \in NamespaceOps /\ BadNamespace) =>
        /\ ValidationError
        /\ NothingDispatched

----------------------------------------------------------------------------
(* The run id of a write-only create_dataset.                              *)

WriteOnlyCreateDataset == client.kind = "wo" /\ last.op = "create_dataset"

\* C20: the write-only create_dataset takes run_id as mandatory but
\* opaque: without a run_id, or with an empty one, the call fails with a
\* validation error and records no request; with any non-empty run_id,
\* well-formed UUID or not, and otherwise valid inputs it records exactly
\* one PUT whose body holds the key runId with the caller's value unchanged.
C20_RunIdMandatoryButOpaque ==
    WriteOnlyCreateDataset =>
        /\ ~NonEmptyStr(last.args.run_id) =>
              ValidationError /\ NothingDispatched
        /\ (NonEmptyStr(last.args.run_id) /\ ValidBut({"run_id"})) =>
              /\ last.err = OK
              /\ last.sent = <<>>
              /\ Len(last.sink) = 1
              /\ last.sink[1].method = "PUT"
              /\ "runId" \in DOMAIN last.sink[1].payload
              /\ last.sink[1].payload["runId"] = last.args.run_id

\* a dataset was recorded under a run id that is no UUID
C20_Witness ==
    /\ WriteOnlyCreateDataset
    /\ last.args.run_id = Str(NOT_UUID)
    /\ ~WellFormedUuid(last.args.run_id)
    /\ last.err = OK
    /\ Len(last.sink) = 1
    /\ last.sink[1].method = "PUT"
    /\ last.sink[1].payload["runId"] = Str(NOT_UUID)

====
